---- MODULE Spec2Model ----
(***************************************************************************)
(* Auction-offer poller of Car_parser: bot/services/parser.py (fetch,      *)
(* parse, dedup, sort), bot/services/poller.py (warm start, steady cycles, *)
(* 12h and 3h notification tiers) and the request handlers of              *)
(* bot/handlers/start.py that share state with the poller.                 *)
(*                                                                         *)
(* Time is in seconds since process start.  A text that holds a date is    *)
(* the record [fmt |-> TRUE, t |-> instant]; a text that strptime rejects  *)
(* is [fmt |-> FALSE, t |-> 0].  The text of a card's p.auction-id element *)
(* is a sequence of tokens (words and ":"); <<>> is a card without it.     *)
(***************************************************************************)
EXTENDS Integers, Sequences, FiniteSets, TLC

\* ------------------------------------------------------------------ bounds
MaxCycles == 3
MaxCards == 2
TierCycles == 1
DeliveryCycles == 1
LiveCycles == 1
StoreCycles == 2
EdgeCycles == 2
MaxCalls == 2
MaxRows == 2
DeleteCycles == 1
CacheCycles == 2
MaxReplies == 1

\* ------------------------------------------------------- program constants
POLL_INTERVAL == 180
TWELVE_HOURS == 12 * 3600
THREE_HOURS == 3 * 3600
UNKNOWN_SECONDS == 999999
HTTP_OK == 200

sources == <<"AXA", "REST", "Allianz">>

VARIABLES
    now,            \* wall clock (datetime.now), seconds since process start
    pc,             \* the await at which poll_new_offers is suspended
    served,         \* what the sources serve to the pass that fetches
    offers,         \* poll_new_offers: the local list of the steady cycle
    k,              \* poll_new_offers: position of the 12h loop in offers
    cached_offers,  \* poller.cached_offers
    subscribers,    \* poller.subscribers
    _seen_ids,      \* poller._seen_ids
    _notified_12h,  \* poller._notified_12h
    _notified_3h,   \* poller._notified_3h, keys <<user_id, offer_id>>
    _offer_cache,   \* start._offer_cache: offer id -> what the detail view shows
    manual_cars,    \* table manual_cars, rows in insertion order
    favorites,      \* table favorites, rows <<user_id, offer_id>>
    sent,           \* messages handed to the bot, with their number of copies
    start_urgent,   \* ids the sources listed under 12h when the process started
    warm_under,     \* ids under 12h in the snapshot the warm start published
    streak,         \* per id, the steady cycles since it first went under 12h
    sending,        \* the 12h loop: the offer id and list(subscribers) of line 221
    lost,           \* the messages whose every send attempt raised
    lossy,          \* whether the sends of this run can raise
    favs_read,      \* whether the last select of the favorites returned
    _fetch_lock,    \* poller._fetch_lock: TRUE while it is held
    in_fetch,       \* the executions of fetch_offers that have not returned
    _active_chat,   \* start._active_chat: manager -> [user_id]
    _users_in_chat, \* start._users_in_chat
    _user_to_manager, \* start._user_to_manager: user -> manager
    replying,       \* the calls of cb_reply_to_user suspended at line 528
    relayed,        \* <<sender, receiver>> of the last text a relay handler passed on
    fsm,            \* the FSM storage of the dispatcher: user -> [state, data]
    calls,          \* the add-car callbacks suspended in callback.answer or a commit
    saved           \* per user, whether a row was inserted from the data as it is

vars == <<now, pc, served, offers, k, cached_offers, subscribers, _seen_ids,
          _notified_12h, _notified_3h, _offer_cache, manual_cars, favorites,
          sent, start_urgent, warm_under, streak, sending, lost, lossy,
          favs_read, _fetch_lock, in_fetch, _active_chat, _users_in_chat,
          _user_to_manager, replying, relayed, fsm, calls, saved>>

\* The state of the add-car form, which only the handlers of add_car.py
\* read and write.
add_car_form == <<fsm, calls, saved>>

\* The structures of the relay chat, which only the handlers of start.py
\* lines 494-663 read and write.
relay_chat ==
    <<_active_chat, _users_in_chat, _user_to_manager, replying, relayed>>

\* What the poller and the other handlers work on.
poller_state ==
    <<now, pc, served, offers, k, cached_offers, subscribers, _seen_ids,
      _notified_12h, _notified_3h, _offer_cache, manual_cars, favorites,
      sent, start_urgent, warm_under, streak, sending, lost, lossy,
      favs_read, _fetch_lock, in_fetch>>

\* The same without the table manual_cars.
beside_manual_cars ==
    <<now, pc, served, offers, k, cached_offers, subscribers, _seen_ids,
      _notified_12h, _notified_3h, _offer_cache, favorites, sent,
      start_urgent, warm_under, streak, sending, lost, lossy, favs_read,
      _fetch_lock, in_fetch>>

\* settings.manager_ids, and the users whose requests a manager can answer.
Managers == {11, 12}
Clients == {1, 2}
Calls == Managers \X Clients

\* add_car._is_manager.
_is_manager(user_id) == user_id \in Managers

\* state.clear(): no state and no data.
NoForm == [state |-> "none", data |-> <<>>]

\* A slot of `calls` that holds no suspended callback.
Idle == [user |-> 0, handler |-> "", at |-> ""]
Slots == 1..MaxCalls

\* ------------------------------------------------------------ data shapes
Date(t) == [fmt |-> TRUE, t |-> t]
BadDate == [fmt |-> FALSE, t |-> 0]

Max(a, b) == IF a >= b THEN a ELSE b

\* parser._parse_auction_end: strptime failure gives 999999, otherwise
\* max(0, int(end - now)).
_parse_auction_end(text, clock) ==
    IF text.fmt THEN Max(0, text.t - clock) ELSE UNKNOWN_SECONDS

\* text.split(":")[1]: the tokens between the first and the second colon.
RECURSIVE UpToColon(_)
UpToColon(toks) ==
    IF toks = <<>> \/ Head(toks) = ":" THEN <<>>
    ELSE <<Head(toks)>> \o UpToColon(Tail(toks))

RECURSIVE AfterColon(_)
AfterColon(toks) ==
    IF toks = <<>> THEN <<>>
    ELSE IF Head(toks) = ":" THEN UpToColon(Tail(toks))
    ELSE AfterColon(Tail(toks))

HasColon(toks) == \E i \in 1..Len(toks) : toks[i] = ":"

\* parser._parse_cards lines 91-96: IndexError when nothing follows the colon.
LotIdRaises(aid) == HasColon(aid) /\ AfterColon(aid) = <<>>

lot_id(aid) == IF HasColon(aid) THEN AfterColon(aid)[1] ELSE ""

\* parser._parse_cards lines 85-134, one card.
ParseCard(card, source, clock) ==
    [id |-> lot_id(card.aid),
     title |-> card.h3[1],
     image_url |-> IF card.img THEN "src" ELSE "",
     source |-> source,
     auction_end |-> card.end,
     auction_end_seconds |-> _parse_auction_end(card.end, clock)]

RECURSIVE _parse_cards(_, _, _)
_parse_cards(cards, source, clock) ==
    IF cards = <<>> THEN <<>>
    ELSE (IF Head(cards).h3 = <<>> THEN <<>>
          ELSE <<ParseCard(Head(cards), source, clock)>>)
         \o _parse_cards(Tail(cards), source, clock)

\* A card without h3 is skipped before its id text is read.
ParseRaises(cards) ==
    \E i \in 1..Len(cards) : cards[i].h3 # <<>> /\ LotIdRaises(cards[i].aid)

\* parser.fetch_offers lines 147-150: a source contributes only when its
\* request returned a response, and with status 200.
Usable(resp) == ~resp.exc /\ resp.status_code = HTTP_OK

RECURSIVE AllOffers(_, _, _)
AllOffers(resps, i, clock) ==
    IF i > Len(resps) THEN <<>>
    ELSE (IF Usable(resps[i]) THEN _parse_cards(resps[i].cards, sources[i], clock)
          ELSE <<>>)
         \o AllOffers(resps, i + 1, clock)

FetchRaises(resps) ==
    \E i \in 1..Len(resps) : Usable(resps[i]) /\ ParseRaises(resps[i].cards)

\* The deduplication without its `o.id not in seen` test.
DedupNoSeen(all, seen) == SelectSeq(all, LAMBDA o : o.id # "")

\* parser.fetch_offers lines 156-162: first record of each non-empty id.
RECURSIVE Dedup(_, _)
Dedup(all, seen) ==
    IF all = <<>> THEN <<>>
    ELSE LET o == Head(all) IN
         IF o.id # "" /\ o.id \notin seen
         THEN <<o>> \o Dedup(Tail(all), seen \cup {o.id})
         ELSE Dedup(Tail(all), seen)

\* An insertion before the records of the same key: a sort that is not stable.
InsertBeforeEqual(s, o) ==
    LET n == Cardinality({j \in 1..Len(s) :
                 s[j].auction_end_seconds < o.auction_end_seconds})
    IN SubSeq(s, 1, n) \o <<o>> \o SubSeq(s, n + 1, Len(s))

\* list.sort(key=lambda o: o.auction_end_seconds): a stable sort, as a
\* left-to-right insertion after the records whose key is not greater.
InsertByKey(s, o) ==
    LET n == Cardinality({j \in 1..Len(s) :
                 s[j].auction_end_seconds <= o.auction_end_seconds})
    IN SubSeq(s, 1, n) \o <<o>> \o SubSeq(s, n + 1, Len(s))

RECURSIVE sort_offers(_)
sort_offers(s) ==
    IF s = <<>> THEN <<>>
    ELSE InsertByKey(sort_offers(SubSeq(s, 1, Len(s) - 1)), s[Len(s)])

Unique(resps, clock) == Dedup(AllOffers(resps, 1, clock), {})

fetch_offers(resps, clock) == sort_offers(Unique(resps, clock))

\* poller._load_manual_cars lines 50-68 over the rows the query returned.
\* The source label of line 65 is the Ukrainian word for "Manager".
ManualItem(car, clock) ==
    [id |-> "manual_" \o ToString(car.id),
     source |-> "Manager",
     auction_end |-> Date(car.auction_end),
     auction_end_seconds |-> Max(0, car.auction_end - clock)]

\* A load that keeps the cars whose auction has ended.
RECURSIVE ManualItemsKeepEnded(_, _)
ManualItemsKeepEnded(cars, clock) ==
    IF cars = <<>> THEN <<>>
    ELSE <<ManualItem(Head(cars), clock)>> \o ManualItemsKeepEnded(Tail(cars), clock)

RECURSIVE ManualItems(_, _)
ManualItems(cars, clock) ==
    IF cars = <<>> THEN <<>>
    ELSE LET it == ManualItem(Head(cars), clock) IN
         (IF it.auction_end_seconds <= 0 THEN <<>> ELSE <<it>>)
         \o ManualItems(Tail(cars), clock)

\* A query without the is_active condition.
ActiveRowsAll(cars) == cars

ActiveRows(cars) == SelectSeq(cars, LAMBDA c : c.is_active)

_load_manual_cars(cars, failed, clock) ==
    IF failed THEN <<>> ELSE ManualItems(ActiveRows(cars), clock)

\* poller.poll_new_offers lines 170-172 and 205-207.
MergeManual(fetched, manual) == sort_offers(fetched \o manual)

\* ------------------------------------------------------- shared helpers
Ids(list) == {list[i].id : i \in 1..Len(list)}

Under(list, limit) ==
    {list[i].id : i \in {j \in 1..Len(list) : list[j].auction_end_seconds < limit}}

\* offer.id.startswith("manual_")
IsManualId(id) == Len(id) >= 7 /\ SubSeq(id, 1, 7) = "manual_"

\* {o.id: o for o in cached_offers}: the last record of an id wins.
OffersMap(list, id) ==
    list[CHOOSE i \in 1..Len(list) :
            /\ list[i].id = id
            /\ \A j \in (i + 1)..Len(list) : list[j].id # id]

\* The part of (o.url, o.title, o.image_url) that the records of the model
\* carry: the url is in none, the title and the image in the scraped ones.
Shown(o) ==
    [x \in DOMAIN o \ {"id", "source", "auction_end", "auction_end_seconds"}
        |-> o[x]]

\* A loop that leaves the entry of an id that is already a key.
CachedKeepFirst(cache, list) ==
    [id \in DOMAIN cache \cup Ids(list) |->
        IF id \in DOMAIN cache THEN cache[id] ELSE Shown(OffersMap(list, id))]

\* poll_new_offers lines 183-184 and 212-213: _offer_cache[o.id] = (...)
\* for every record of the list in its order.
Cached(cache, list) ==
    [id \in DOMAIN cache \cup Ids(list) |->
        IF id \in Ids(list) THEN Shown(OffersMap(list, id)) ELSE cache[id]]

\* A call of _send_offer or bot.send_message: the tier, the chat, the
\* offer id and the cycle (the clock of its fetch) that made the call.
Msg(tier, chat, id, at) == [tier |-> tier, chat |-> chat, id |-> id, at |-> at]

Copies(log, m) == IF m \in DOMAIN log THEN log[m] ELSE 0

\* A bot that is handed nothing.
RecordNothing(log, ms) == log

Record(log, ms) ==
    [m \in DOMAIN log \cup ms |-> Copies(log, m) + (IF m \in ms THEN 1 ELSE 0)]

RECURSIVE Total(_, _)
Total(log, ms) ==
    IF ms = {} THEN 0
    ELSE LET m == CHOOSE x \in ms : TRUE IN log[m] + Total(log, ms \ {m})

\* The number of messages of a tier handed to the bot for a chat and an id.
Sends(log, tier, chat, id) ==
    Total(log, {m \in DOMAIN log : m.tier = tier /\ m.chat = chat /\ m.id = id})

\* ------------------------------------------------- what the sources serve
\* A card of a listing page: the tokens of p.auction-id (<<>> without the
\* element), the end date, the text of h3 (<<>> without the element) and
\* whether .swiper-slide img has a src.
CardWith(aid, end, h3, img) == [aid |-> aid, end |-> end, h3 |-> h3, img |-> img]

Card(aid, end) == CardWith(aid, end, <<"Audi">>, TRUE)
LotText(id) == <<"ID", ":", id>>

Served(page, outcome) == [page |-> page, outcome |-> outcome]

\* The response of one request: an exception (timeout, transport), a
\* response with a status other than 200, or the page.
Response(s) ==
    [exc |-> s.outcome = "exc",
     status_code |-> IF s.outcome = "http" THEN 500 ELSE HTTP_OK,
     cards |-> IF s.outcome = "ok" THEN s.page ELSE <<>>]

Listing(s) == [exc |-> FALSE, status_code |-> HTTP_OK, cards |-> s.page]

\* What the three sources serve in the runs of Spec: offer 7 goes under
\* 12h after the warm start, offer 8 is under 12h from the start; a request
\* may fail, and one page holds a card whose id text ends at the colon.
AxaServes ==
    { Served(<<Card(LotText("7"), Date(TWELVE_HOURS + 100))>>, "ok"),
      Served(<<>>, "ok") }

\* A page whose card carries an id that starts with "manual_".
PrefixedServes ==
    { Served(<<Card(LotText("manual_9"), Date(1000))>>, "ok") }

RestServes ==
    { Served(<<Card(<<"ID", ":">>, Date(1000))>>, "ok"),
      Served(<<>>, "http") }

AllianzServes ==
    { Served(<<Card(LotText("8"), Date(THREE_HOURS + 200))>>, "ok"),
      Served(<<Card(LotText("8"), Date(THREE_HOURS + 200))>>, "exc") }

Serves == {<<a, r, z>> : a \in AxaServes, r \in RestServes, z \in AllianzServes}

\* The runs of SpecRestart: offer 8 is under 12h from the start, and AXA
\* lists or not the card whose id starts with "manual_".
RestartServes ==
    {<<a, Served(<<>>, "http"),
       Served(<<Card(LotText("8"), Date(THREE_HOURS + 200))>>, "ok")>> :
        a \in PrefixedServes \cup {Served(<<>>, "ok")}}

\* The runs of SpecCross: offer 7 alone, listed or not, over five cycles.
CrossServes ==
    {<<a, Served(<<>>, "http"), Served(<<>>, "ok")>> :
        a \in AxaServes \cup {Served(<<>>, "exc")}}

\* The runs of SpecFav: offer 7 is under 3h or far above it, and its end
\* time may change between cycles; offer 8 goes under 3h in the second cycle.
FavServes ==
    {<<a, Served(<<>>, "ok"), Served(<<>>, "http")>> :
        a \in { Served(<<Card(LotText("7"), Date(1000))>>, "ok"),
                Served(<<Card(LotText("7"), Date(THREE_HOURS + 200))>>, "ok"),
                Served(<<Card(LotText("7"), Date(TWELVE_HOURS + 100))>>, "ok"),
                Served(<<>>, "exc") }}

Gathered(sv) == [i \in 1..3 |-> Response(sv[i])]

\* The scraped ids listed under 12h, whatever became of the requests.
ListedUrgent(sv, clock) ==
    LET all == [i \in 1..3 |-> Listing(sv[i])]
        ok == [i \in 1..3 |->
                 IF ParseRaises(all[i].cards)
                 THEN [all[i] EXCEPT !.cards = <<>>] ELSE all[i]]
    IN Under(Unique(ok, clock), TWELVE_HOURS)

Chats == {1, 2}

\* The rows of manual_cars when the process starts.
ManualTables ==
    { <<>>, <<[id |-> 1, auction_end |-> 700, is_active |-> TRUE]>> }

\* ------------------------------------------------------------ the poller
\* poller.poll_new_offers line 179: the offers the warm start marks.
WarmMarks(o) ==
    o.auction_end_seconds < TWELVE_HOURS /\ ~IsManualId(o.id)

\* The 12h test without its `offer.id not in _notified_12h` half.
NeedsUrgentAgain(o, notified) == o.auction_end_seconds < TWELVE_HOURS

\* A loop that notifies only the ids the poller has not seen before.
NeedsUrgentNewOnly(o, notified) ==
    /\ o.auction_end_seconds < TWELVE_HOURS
    /\ o.id \notin notified
    /\ o.id \notin _seen_ids

\* A loop whose comparison includes the limit itself.
NeedsUrgentInclusive(o, notified) ==
    o.auction_end_seconds <= TWELVE_HOURS /\ o.id \notin notified

\* poller.poll_new_offers line 218.
NeedsUrgent(o, notified) ==
    o.auction_end_seconds < TWELVE_HOURS /\ o.id \notin notified

\* The favorites under 3h, without the `key in _notified_3h` test.
FavHitsAgain(list, favs, notified) ==
    {f \in favs :
        /\ f[2] \in Ids(list)
        /\ OffersMap(list, f[2]).auction_end_seconds < THREE_HOURS}

\* poller._check_favorites_3h lines 124-134: the favorites it marks.
FavHits(list, favs, notified) ==
    {f \in favs :
        /\ f[2] \in Ids(list)
        /\ OffersMap(list, f[2]).auction_end_seconds < THREE_HOURS
        /\ f \notin notified}

\* The warnings of a check that does not look at `notify`.
FavMessagesAlways(hits, notify) == {Msg("3h", f[1], f[2], now) : f \in hits}

\* poller._check_favorites_3h lines 136-150: the warnings it sends.
FavMessages(hits, notify) ==
    IF notify THEN {Msg("3h", f[1], f[2], now) : f \in hits} ELSE {}

Dead(s) == [n |-> 0, subs |-> {}, since |-> s.since, live |-> FALSE]

\* Per id, from the first steady cycle that published it under 12h: the
\* number n of steady cycles in a row that published it under 12h, the
\* clock and the subscribers of the first one.
Streak(old, list, subs) ==
    LET under == Under(list, TWELVE_HOURS) IN
    [id \in DOMAIN old \cup under |->
        IF id \notin DOMAIN old
        THEN [n |-> 1, subs |-> subs, since |-> now, live |-> TRUE]
        ELSE IF old[id].live /\ id \in under THEN [old[id] EXCEPT !.n = @ + 1]
        ELSE Dead(old[id])]

NoStreak(old) == [id \in DOMAIN old |-> Dead(old[id])]

\* list(subscribers): the chat ids in the order a set of small integers
\* is iterated, which is ascending.
RECURSIVE SortedChats(_)
SortedChats(chats) ==
    IF chats = {} THEN <<>>
    ELSE LET c == CHOOSE x \in chats : \A y \in chats : x <= y
         IN <<c>> \o SortedChats(chats \ {c})

NoDelivery == [id |-> "", all |-> {}, chats |-> <<>>]

\* _send_offer lines 91-106 and _check_favorites_3h lines 149-153: a send
\* returns or, photo and text fallback alike, raises and is logged.
Deliveries == IF lossy THEN BOOLEAN ELSE {TRUE}

Start(rows, favs, net) ==
    /\ now = 0
    /\ pc = "warm_fetch"
    /\ served = <<>>
    /\ offers = <<>>
    /\ k = 1
    /\ cached_offers = <<>>
    /\ subscribers = {}
    /\ _seen_ids = {}
    /\ _notified_12h = {}
    /\ _notified_3h = {}
    /\ _offer_cache = <<>>
    /\ manual_cars = rows
    /\ favorites = favs
    /\ sent = <<>>
    /\ start_urgent = {}
    /\ warm_under = {}
    /\ streak = <<>>
    /\ sending = NoDelivery
    /\ lost = {}
    /\ lossy = net
    /\ favs_read = FALSE
    /\ _fetch_lock = TRUE
    /\ in_fetch = 1
    /\ _active_chat = <<>>
    /\ _users_in_chat = {}
    /\ _user_to_manager = <<>>
    /\ replying = [c \in Calls |-> 0]
    /\ relayed = <<>>
    /\ fsm = [u \in Managers \cup Clients |-> NoForm]
    /\ calls = [n \in Slots |-> Idle]
    /\ saved = [u \in Managers \cup Clients |-> FALSE]

InitWith(rows, favs) == Start(rows, favs, FALSE)

Init == \E rows \in ManualTables : InitWith(rows, {})

\* poll_new_offers line 167: the first fetch returns or raises.
WarmFetch(sv) ==
    /\ pc = "warm_fetch"
    /\ _fetch_lock /\ _fetch_lock' = FALSE /\ in_fetch' = in_fetch - 1
    /\ served' = sv
    /\ start_urgent' = ListedUrgent(sv, now)
    /\ IF FetchRaises(Gathered(sv))
       THEN pc' = "sleep" /\ UNCHANGED cached_offers
       ELSE /\ cached_offers' = fetch_offers(Gathered(sv), now)
            /\ pc' = "warm_manual"
    /\ UNCHANGED <<now, offers, k, subscribers, _seen_ids,
                   _notified_12h, _notified_3h, _offer_cache, manual_cars,
                   favorites, sent, warm_under, streak, sending, lost, lossy, favs_read,
                   relay_chat,
                   add_car_form>>

\* poll_new_offers lines 170-187, up to the await in _check_favorites_3h.
WarmMerge(failed) ==
    /\ pc = "warm_manual"
    /\ LET merged == MergeManual(cached_offers,
                                 _load_manual_cars(manual_cars, failed, now))
       IN /\ cached_offers' = merged
          /\ _seen_ids' = {id \in Ids(merged) : id # ""}
          /\ _notified_12h' = _notified_12h \cup
                {merged[i].id : i \in {j \in 1..Len(merged) : WarmMarks(merged[j])}}
          /\ _offer_cache' = Cached(_offer_cache, merged)
          /\ warm_under' = Under(merged, TWELVE_HOURS)
          /\ pc' = IF merged = <<>> THEN "sleep" ELSE "warm_favs"
    /\ UNCHANGED <<now, served, offers, k, subscribers, _notified_3h,
                   manual_cars, favorites, sent, start_urgent, streak,
                   sending, lost, lossy, favs_read,
                   _fetch_lock, in_fetch,
                   relay_chat,
                   add_car_form>>

\* _check_favorites_3h(bot, notify=False) lines 116-137.
WarmFavs(failed) ==
    /\ pc = "warm_favs"
    /\ pc' = "sleep"
    /\ favs_read' = ~failed
    /\ LET hits == IF failed THEN {}
                   ELSE FavHits(cached_offers, favorites, _notified_3h)
       IN /\ _notified_3h' = _notified_3h \cup hits
          /\ sent' = Record(sent, FavMessages(hits, FALSE))
    /\ UNCHANGED <<now, served, offers, k, cached_offers, subscribers,
                   _seen_ids, _notified_12h, _offer_cache, manual_cars,
                   favorites, start_urgent, warm_under, streak, sending,
                   lost, lossy, _fetch_lock, in_fetch,
                   relay_chat,
                   add_car_form>>

\* A cycle started by the clock, whatever the poller is doing and without
\* the lock.
SleepOverlapping(cycles) ==
    /\ now < cycles * POLL_INTERVAL
    /\ now' = now + POLL_INTERVAL
    /\ pc' = "fetch"
    /\ _fetch_lock' = TRUE /\ in_fetch' = in_fetch + 1
    /\ UNCHANGED <<served, offers, k, cached_offers, subscribers, _seen_ids,
                   _notified_12h, _notified_3h, _offer_cache, manual_cars,
                   favorites, sent, start_urgent, warm_under, streak,
                   sending, lost, lossy, favs_read,
                   relay_chat,
                   add_car_form>>

\* poll_new_offers lines 196-198 and _fetch_offers_safe line 157: the sleep
\* ends, the lock is taken and fetch_offers starts its requests.
Sleep(cycles) ==
    /\ pc = "sleep"
    /\ ~_fetch_lock /\ _fetch_lock' = TRUE /\ in_fetch' = in_fetch + 1
    /\ now < cycles * POLL_INTERVAL
    /\ now' = now + POLL_INTERVAL
    /\ pc' = "fetch"
    /\ UNCHANGED <<served, offers, k, cached_offers, subscribers, _seen_ids,
                   _notified_12h, _notified_3h, _offer_cache, manual_cars,
                   favorites, sent, start_urgent, warm_under, streak,
                   sending, lost, lossy, favs_read,
                   relay_chat,
                   add_car_form>>

\* A steady fetch that drops the snapshot when the pass raises.
SteadyFetchClears(sv) ==
    /\ pc = "fetch"
    /\ _fetch_lock /\ _fetch_lock' = FALSE /\ in_fetch' = in_fetch - 1
    /\ served' = sv
    /\ IF FetchRaises(Gathered(sv))
       THEN /\ pc' = "sleep" /\ streak' = NoStreak(streak) /\ UNCHANGED offers
            /\ cached_offers' = <<>>
       ELSE /\ offers' = fetch_offers(Gathered(sv), now)
            /\ pc' = "manual"
            /\ UNCHANGED <<streak, cached_offers>>
    /\ UNCHANGED <<now, k, subscribers, _seen_ids,
                   _notified_12h, _notified_3h, _offer_cache, manual_cars,
                   favorites, sent, start_urgent, warm_under, sending, lost,
                   lossy, favs_read,
                   relay_chat,
                   add_car_form>>

\* A steady fetch whose exception ends the polling loop.
SteadyFetchStops(sv) ==
    /\ pc = "fetch"
    /\ _fetch_lock /\ _fetch_lock' = FALSE /\ in_fetch' = in_fetch - 1
    /\ served' = sv
    /\ IF FetchRaises(Gathered(sv))
       THEN pc' = "stopped" /\ streak' = NoStreak(streak) /\ UNCHANGED offers
       ELSE /\ offers' = fetch_offers(Gathered(sv), now)
            /\ pc' = "manual"
            /\ UNCHANGED streak
    /\ UNCHANGED <<now, k, cached_offers, subscribers, _seen_ids,
                   _notified_12h, _notified_3h, _offer_cache, manual_cars,
                   favorites, sent, start_urgent, warm_under, sending, lost,
                   lossy, favs_read,
                   relay_chat,
                   add_car_form>>

\* poll_new_offers lines 197-201.
SteadyFetch(sv) ==
    /\ pc = "fetch"
    /\ _fetch_lock /\ _fetch_lock' = FALSE /\ in_fetch' = in_fetch - 1
    /\ served' = sv
    /\ IF FetchRaises(Gathered(sv))
       THEN pc' = "sleep" /\ streak' = NoStreak(streak) /\ UNCHANGED offers
       ELSE /\ offers' = fetch_offers(Gathered(sv), now)
            /\ pc' = "manual"
            /\ UNCHANGED streak
    /\ UNCHANGED <<now, k, cached_offers, subscribers, _seen_ids,
                   _notified_12h, _notified_3h, _offer_cache, manual_cars,
                   favorites, sent, start_urgent, warm_under, sending, lost,
                   lossy, favs_read,
                   relay_chat,
                   add_car_form>>

\* A merge that keeps the list in the local and does not publish it.
SteadyMergeStale(failed) ==
    /\ pc = "manual"
    /\ LET merged == MergeManual(offers,
                                 _load_manual_cars(manual_cars, failed, now))
       IN /\ offers' = merged
          /\ _offer_cache' = Cached(_offer_cache, merged)
          /\ _seen_ids' = _seen_ids \cup Ids(merged)
          /\ streak' = Streak(streak, merged, subscribers)
    /\ k' = 1
    /\ pc' = "urgent"
    /\ UNCHANGED <<now, served, cached_offers, subscribers, _notified_12h,
                   _notified_3h, manual_cars, favorites, sent, start_urgent,
                   warm_under, sending, lost, lossy, favs_read,
                   _fetch_lock, in_fetch,
                   relay_chat,
                   add_car_form>>

\* A merge that gives the cycle up when the manual cars cannot be read.
SteadyMergeAborts(failed) ==
    /\ pc = "manual"
    /\ LET merged == MergeManual(offers,
                                 _load_manual_cars(manual_cars, failed, now))
       IN IF failed
          THEN /\ pc' = "sleep"
               /\ UNCHANGED <<offers, cached_offers, _offer_cache, _seen_ids,
                              streak>>
          ELSE /\ offers' = merged
               /\ cached_offers' = merged
               /\ _offer_cache' = Cached(_offer_cache, merged)
               /\ _seen_ids' = _seen_ids \cup Ids(merged)
               /\ streak' = Streak(streak, merged, subscribers)
               /\ pc' = "urgent"
    /\ k' = 1
    /\ UNCHANGED <<now, served, subscribers, _notified_12h, _notified_3h,
                   manual_cars, favorites, sent, start_urgent, warm_under,
                   sending, lost, lossy, favs_read, _fetch_lock, in_fetch,
                   relay_chat,
                   add_car_form>>

\* poll_new_offers lines 205-214.
SteadyMerge(failed) ==
    /\ pc = "manual"
    /\ LET merged == MergeManual(offers,
                                 _load_manual_cars(manual_cars, failed, now))
       IN /\ offers' = merged
          /\ cached_offers' = merged
          /\ _offer_cache' = Cached(_offer_cache, merged)
          /\ _seen_ids' = _seen_ids \cup Ids(merged)
          /\ streak' = Streak(streak, merged, subscribers)
    /\ k' = 1
    /\ pc' = "urgent"
    /\ UNCHANGED <<now, served, subscribers, _notified_12h, _notified_3h,
                   manual_cars, favorites, sent, start_urgent, warm_under,
                   sending, lost, lossy, favs_read,
                   _fetch_lock, in_fetch,
                   relay_chat,
                   add_car_form>>

Pending12 == {j \in k..Len(offers) : NeedsUrgent(offers[j], _notified_12h)}

\* poll_new_offers lines 217-221: the next offer of the loop that is under
\* 12h and not notified is marked, and list(subscribers) is taken.
UrgentNotify ==
    /\ pc = "urgent"
    /\ sending.chats = <<>>
    /\ Pending12 # {}
    /\ LET j == CHOOSE i \in Pending12 : \A h \in Pending12 : i <= h
       IN /\ _notified_12h' = _notified_12h \cup {offers[j].id}
          /\ sending' = [id |-> offers[j].id, all |-> subscribers,
                         chats |-> SortedChats(subscribers)]
          /\ k' = j + 1
    /\ UNCHANGED <<now, pc, served, offers, cached_offers, subscribers,
                   _seen_ids, _notified_3h, _offer_cache, manual_cars,
                   favorites, sent, start_urgent, warm_under, streak, lost,
                   lossy, favs_read,
                   _fetch_lock, in_fetch,
                   relay_chat,
                   add_car_form>>

\* A send whose failure propagates and ends the cycle.
UrgentSendAborts(ok) ==
    /\ pc = "urgent"
    /\ sending.chats # <<>>
    /\ LET m == Msg("12h", Head(sending.chats), sending.id, now)
       IN /\ sent' = Record(sent, {m})
          /\ lost' = IF ok THEN lost ELSE lost \cup {m}
    /\ IF ok
       THEN sending' = [sending EXCEPT !.chats = Tail(@)] /\ UNCHANGED <<pc, k>>
       ELSE sending' = NoDelivery /\ pc' = "sleep" /\ k' = 1
    /\ UNCHANGED <<now, served, offers, cached_offers, subscribers,
                   _seen_ids, _notified_12h, _notified_3h, _offer_cache,
                   manual_cars, favorites, start_urgent, warm_under, streak,
                   lossy, favs_read,
                   _fetch_lock, in_fetch,
                   relay_chat,
                   add_car_form>>

\* poll_new_offers line 222: the await of _send_offer for the next chat of
\* the list returns, the send done or, if ~ok, failed and logged.
UrgentSend(ok) ==
    /\ pc = "urgent"
    /\ sending.chats # <<>>
    /\ LET m == Msg("12h", Head(sending.chats), sending.id, now)
       IN /\ sent' = Record(sent, {m})
          /\ lost' = IF ok THEN lost ELSE lost \cup {m}
    /\ sending' = [sending EXCEPT !.chats = Tail(@)]
    /\ UNCHANGED <<now, pc, served, offers, k, cached_offers, subscribers,
                   _seen_ids, _notified_12h, _notified_3h, _offer_cache,
                   manual_cars, favorites, start_urgent, warm_under, streak,
                   lossy, favs_read,
                   _fetch_lock, in_fetch,
                   relay_chat,
                   add_car_form>>

\* The loop ends; _check_favorites_3h lines 111-114 returns at once on an
\* empty snapshot and otherwise awaits the favorites.
UrgentDone ==
    /\ pc = "urgent"
    /\ sending.chats = <<>>
    /\ Pending12 = {}
    /\ k' = 1
    /\ sending' = NoDelivery
    /\ pc' = IF cached_offers = <<>> THEN "sleep" ELSE "favs"
    /\ UNCHANGED <<now, served, offers, cached_offers, subscribers,
                   _seen_ids, _notified_12h, _notified_3h, _offer_cache,
                   manual_cars, favorites, sent, start_urgent, warm_under,
                   streak, lost, lossy, favs_read,
                   _fetch_lock, in_fetch,
                   relay_chat,
                   add_car_form>>

\* _check_favorites_3h(bot, notify=True) lines 116-153.
SteadyFavs(failed) ==
    /\ pc = "favs"
    /\ pc' = "sleep"
    /\ favs_read' = ~failed
    /\ LET hits == IF failed THEN {}
                   ELSE FavHits(cached_offers, favorites, _notified_3h)
       IN /\ _notified_3h' = _notified_3h \cup hits
          /\ sent' = Record(sent, FavMessages(hits, TRUE))
          /\ \E fails \in (IF lossy THEN SUBSET FavMessages(hits, TRUE) ELSE {{}}) :
                 lost' = lost \cup fails
    /\ UNCHANGED <<now, served, offers, k, cached_offers, subscribers,
                   _seen_ids, _notified_12h, _offer_cache, manual_cars,
                   favorites, start_urgent, warm_under, streak, sending,
                   lossy, _fetch_lock, in_fetch,
                   relay_chat,
                   add_car_form>>

\* A /start that unsubscribes a chat that is already registered.
cmd_startToggles(chat) ==
    /\ subscribers' = IF chat \in subscribers THEN subscribers \ {chat}
                      ELSE subscribers \cup {chat}
    /\ UNCHANGED <<now, pc, served, offers, k, cached_offers, _seen_ids,
                   _notified_12h, _notified_3h, _offer_cache, manual_cars,
                   favorites, sent, start_urgent, warm_under, streak,
                   sending, lost, lossy, favs_read,
                   _fetch_lock, in_fetch,
                   relay_chat,
                   add_car_form>>

\* ---------------------------------------------------------- the handlers
\* start.cmd_start lines 68-70.
cmd_start(chat) ==
    /\ subscribers' = subscribers \cup {chat}
    /\ UNCHANGED <<now, pc, served, offers, k, cached_offers, _seen_ids,
                   _notified_12h, _notified_3h, _offer_cache, manual_cars,
                   favorites, sent, start_urgent, warm_under, streak,
                   sending, lost, lossy, favs_read,
                   _fetch_lock, in_fetch,
                   relay_chat,
                   add_car_form>>

\* start.cb_add_fav lines 184-208.
cb_add_fav(user, id) ==
    /\ id \in DOMAIN _offer_cache
    /\ favorites' = favorites \cup {<<user, id>>}
    /\ UNCHANGED <<now, pc, served, offers, k, cached_offers, subscribers,
                   _seen_ids, _notified_12h, _notified_3h, _offer_cache,
                   manual_cars, sent, start_urgent, warm_under, streak,
                   sending, lost, lossy, favs_read,
                   _fetch_lock, in_fetch,
                   relay_chat,
                   add_car_form>>

\* A removal that also forgets the 3h warning of the pair.
cb_remove_favForgets(user, id) ==
    /\ <<user, id>> \in favorites
    /\ favorites' = favorites \ {<<user, id>>}
    /\ _notified_3h' = _notified_3h \ {<<user, id>>}
    /\ UNCHANGED <<now, pc, served, offers, k, cached_offers, subscribers,
                   _seen_ids, _notified_12h, _offer_cache,
                   manual_cars, sent, start_urgent, warm_under, streak,
                   sending, lost, lossy, favs_read,
                   _fetch_lock, in_fetch,
                   relay_chat,
                   add_car_form>>

\* start.cb_remove_fav lines 246-255.
cb_remove_fav(user, id) ==
    /\ <<user, id>> \in favorites
    /\ favorites' = favorites \ {<<user, id>>}
    /\ UNCHANGED <<now, pc, served, offers, k, cached_offers, subscribers,
                   _seen_ids, _notified_12h, _notified_3h, _offer_cache,
                   manual_cars, sent, start_urgent, warm_under, streak,
                   sending, lost, lossy, favs_read,
                   _fetch_lock, in_fetch,
                   relay_chat,
                   add_car_form>>

Warm(serves) ==
    \/ \E sv \in serves : WarmFetch(sv)
    \/ \E failed \in BOOLEAN : WarmMerge(failed)
    \/ \E failed \in BOOLEAN : WarmFavs(failed)

Steady(serves, cycles) ==
    \/ Sleep(cycles)
    \/ \E sv \in serves : SteadyFetch(sv)
    \/ \E failed \in BOOLEAN : SteadyMerge(failed)
    \/ UrgentNotify
    \/ \E ok \in Deliveries : UrgentSend(ok)
    \/ UrgentDone
    \/ \E failed \in BOOLEAN : SteadyFavs(failed)

\* The event loop runs a handler only while poll_new_offers is suspended
\* at an await: lines 206-221 run without one, and the 12h loop awaits only
\* in the sends of line 222.
Suspended == pc # "urgent" \/ sending.chats # <<>>

Subscribe == Suspended /\ \E chat \in Chats : cmd_start(chat)

Favor ==
    /\ Suspended
    /\ \/ \E user \in Chats, id \in DOMAIN _offer_cache : cb_add_fav(user, id)
       \/ \E f \in favorites : cb_remove_fav(f[1], f[2])

\* The poller and the subscribers, with no favorite in the table.
Next == Warm(Serves) \/ Steady(Serves, MaxCycles) \/ Subscribe

Spec == Init /\ [][Next]_vars

\* Five steady cycles around one offer that crosses the 12h threshold.
NextCross == Warm(CrossServes) \/ Steady(CrossServes, 5) \/ Subscribe

SpecCross == Init /\ [][NextCross]_vars

\* The poller, the subscribers and the favorites of the users.
NextFav == Warm(FavServes) \/ Steady(FavServes, MaxCycles) \/ Subscribe \/ Favor

SpecFav == InitWith(<<>>, {}) /\ [][NextFav]_vars

\* A restart with scraped offers and manual cars already under 12h.
NextRestart ==
    Warm(RestartServes) \/ Steady(RestartServes, MaxCycles) \/ Subscribe

SpecRestart == Init /\ [][NextRestart]_vars

\* The warm start alone, on everything the sources and the tables can hold.
NextWarm == Warm(Serves \cup FavServes) \/ Subscribe \/ Favor

SpecWarm ==
    (\E rows \in ManualTables, favs \in SUBSET (Chats \X {"8", "manual_1"}) :
        InitWith(rows, favs))
    /\ [][NextWarm]_vars

\* The poller with manual cars in the table, the subscribers and the
\* favorites.
TierServes ==
    {<<a, Served(<<>>, "ok"), Served(<<>>, "http")>> :
        a \in { Served(<<Card(LotText("7"), Date(THREE_HOURS + 200))>>, "ok"),
                Served(<<>>, "exc") }}

NextTiers ==
    Warm(TierServes) \/ Steady(TierServes, TierCycles) \/ Subscribe \/ Favor

SpecTiers ==
    InitWith(<<[id |-> 1, auction_end |-> 700, is_active |-> TRUE]>>, {})
    /\ [][NextTiers]_vars

\* A page that lists the id of the manual car of the table, ending later
\* than the car, with the subscribers and the favorites.
DupServes ==
    {<<a, Served(<<>>, "ok"), Served(<<>>, "http")>> :
        a \in { Served(<<Card(LotText("manual_1"), Date(TWELVE_HOURS + 100))>>, "ok"),
                Served(<<>>, "exc") }}

NextDup == Warm(DupServes) \/ Steady(DupServes, TierCycles) \/ Subscribe \/ Favor

SpecDup ==
    InitWith(<<[id |-> 1, auction_end |-> 700, is_active |-> TRUE]>>, {})
    /\ [][NextDup]_vars

\* Sends that can fail: the manual car of the table and an offer that goes
\* under 12h in the first steady cycle, the subscribers and the favorites.
DeliveryServes ==
    { <<Served(<<Card(LotText("7"), Date(TWELVE_HOURS + 100))>>, "ok"),
        Served(<<>>, "ok"), Served(<<>>, "http")>> }

NextDelivery ==
    Warm(DeliveryServes) \/ Steady(DeliveryServes, DeliveryCycles) \/ Subscribe \/ Favor

SpecDelivery ==
    Start(<<[id |-> 1, auction_end |-> 700, is_active |-> TRUE]>>, {}, TRUE)
    /\ [][NextDelivery]_vars

\* The poller under every failure at once: pages that make the pass raise,
\* requests that fail, a store that fails and sends that fail. The event
\* loop resumes poll_new_offers whenever the await it is suspended in has
\* completed, and every await of the coroutine completes (the requests and
\* the sends return or raise, the sleep ends), so its steps are weakly fair;
\* the handlers run only when an update arrives and have no fairness.
LiveServes ==
    { <<Served(<<>>, "ok"), Served(<<>>, "http"),
        Served(<<Card(LotText("8"), Date(THREE_HOURS + 200))>>, "ok")>>,
      <<Served(<<>>, "ok"), Served(<<Card(<<"ID", ":">>, Date(1000))>>, "ok"),
        Served(<<>>, "exc")>> }

Poller == Warm(LiveServes) \/ Steady(LiveServes, LiveCycles)

NextLive == Poller \/ Subscribe

SpecLive ==
    /\ Start(<<[id |-> 1, auction_end |-> 700, is_active |-> TRUE]>>,
             {<<1, "manual_1">>}, TRUE)
    /\ [][NextLive]_vars
    /\ WF_vars(Poller)

\* A manual car whose auction ends exactly at the second steady cycle and
\* one that outlives the run, with passes that raise in between.
ExpiryServes ==
    { <<Served(<<>>, "ok"), Served(<<>>, "http"),
        Served(<<Card(LotText("8"), Date(THREE_HOURS + 200))>>, "ok")>>,
      <<Served(<<>>, "ok"), Served(<<Card(<<"ID", ":">>, Date(1000))>>, "ok"),
        Served(<<>>, "exc")>> }

ExpiryTable ==
    <<[id |-> 1, auction_end |-> 2 * POLL_INTERVAL, is_active |-> TRUE],
      [id |-> 2, auction_end |-> 700, is_active |-> TRUE]>>

NextExpiry ==
    Warm(ExpiryServes) \/ Steady(ExpiryServes, MaxCycles) \/ Subscribe

SpecExpiry == InitWith(ExpiryTable, {}) /\ [][NextExpiry]_vars

\* A store that fails: a manual car under both thresholds from the start
\* that is a favorite of user 1, and an offer that goes under 12h in the
\* first steady cycle.
StoreServes ==
    { <<Served(<<>>, "ok"), Served(<<>>, "http"),
        Served(<<Card(LotText("8"), Date(TWELVE_HOURS + 100))>>, "ok")>> }

NextStore == Warm(StoreServes) \/ Steady(StoreServes, StoreCycles) \/ Subscribe

SpecStore ==
    InitWith(<<[id |-> 1, auction_end |-> 700, is_active |-> TRUE]>>,
             {<<1, "manual_1">>})
    /\ [][NextStore]_vars

\* An offer listed from the warm start on that goes under 12h in the second
\* steady cycle, and an offer already under 12h that a source starts to
\* list at any cycle.
SeenServes ==
    {<<Served(<<Card(LotText("7"), Date(TWELVE_HOURS + POLL_INTERVAL + 100))>>, "ok"),
       Served(<<>>, "http"), z>> :
        z \in { Served(<<Card(LotText("8"), Date(THREE_HOURS + 200))>>, "ok"),
                Served(<<>>, "exc") }}

NextSeen == Warm(SeenServes) \/ Steady(SeenServes, MaxCycles) \/ Subscribe

SpecSeen == InitWith(<<>>, {}) /\ [][NextSeen]_vars

\* Offers that a steady cycle evaluates with exactly 43200 and 43199
\* seconds left, and favorites of user 1 that it evaluates with exactly
\* 10800 and 10799 seconds left.
EdgeServes ==
    {<<Served(<<Card(LotText("7"), Date(TWELVE_HOURS + POLL_INTERVAL))>>, "ok"),
       Served(<<Card(LotText("5"), Date(TWELVE_HOURS + POLL_INTERVAL - 1))>>, "ok"),
       z>> :
        z \in { Served(<<Card(LotText("8"), Date(THREE_HOURS + POLL_INTERVAL)),
                         Card(LotText("9"), Date(THREE_HOURS + POLL_INTERVAL - 1))>>,
                       "ok"),
                Served(<<>>, "exc") }}

NextEdge == Warm(EdgeServes) \/ Steady(EdgeServes, EdgeCycles) \/ Subscribe

SpecEdge == InitWith(<<>>, {<<1, "8">>, <<1, "9">>}) /\ [][NextEdge]_vars

\* ------------------------------------------------------- the relay chat
\* dict[key] = value and dict.pop(key, None).
Put(dict, key, value) ==
    [x \in DOMAIN dict \cup {key} |-> IF x = key THEN value ELSE dict[x]]

Pop(dict, key) == [x \in DOMAIN dict \ {key} |-> dict[x]]

\* cb_reply_to_user lines 514-520: the user is in a conversation and
\* _user_to_manager names a manager other than the caller.
TakenByOther(manager_id, user_id) ==
    /\ user_id \in _users_in_chat
    /\ user_id \in DOMAIN _user_to_manager
    /\ _user_to_manager[user_id] # manager_id

\* cb_reply_to_user line 524: the manager has a conversation with another
\* user.
Switching(manager_id, user_id) ==
    /\ manager_id \in DOMAIN _active_chat
    /\ _active_chat[manager_id].user_id # user_id

\* cb_reply_to_user lines 496-549 for the request of a user, up to its
\* end or, when the manager switches users, up to the await of line 528;
\* a user who is taken by another manager is refused.  The awaits before
\* line 514 and after line 540 touch none of the three structures.
cb_reply_to_user(manager_id, user_id) ==
    /\ ~TakenByOther(manager_id, user_id)
    /\ IF Switching(manager_id, user_id)
       THEN LET old_user_id == _active_chat[manager_id].user_id
            IN /\ replying[<<manager_id, user_id>>] < MaxReplies
               /\ _users_in_chat' = _users_in_chat \ {old_user_id}
               /\ _user_to_manager' = Pop(_user_to_manager, old_user_id)
               /\ replying' =
                      [replying EXCEPT ![<<manager_id, user_id>>] = @ + 1]
               /\ UNCHANGED _active_chat
       ELSE /\ _active_chat' =
                   Put(_active_chat, manager_id, [user_id |-> user_id])
            /\ _users_in_chat' = _users_in_chat \cup {user_id}
            /\ _user_to_manager' = Put(_user_to_manager, user_id, manager_id)
            /\ UNCHANGED replying
    /\ UNCHANGED <<relayed, poller_state,
                   add_car_form>>

\* cb_reply_to_user lines 532-549: a call that was suspended at line 528
\* goes on.
cb_reply_resumes(manager_id, user_id) ==
    /\ replying[<<manager_id, user_id>>] > 0
    /\ replying' = [replying EXCEPT ![<<manager_id, user_id>>] = @ - 1]
    /\ _active_chat' = Put(_active_chat, manager_id, [user_id |-> user_id])
    /\ _users_in_chat' = _users_in_chat \cup {user_id}
    /\ _user_to_manager' = Put(_user_to_manager, user_id, manager_id)
    /\ UNCHANGED <<relayed, poller_state,
                   add_car_form>>

\* cmd_end_chat lines 554-563.
cmd_end_chat(manager_id) ==
    /\ manager_id \in DOMAIN _active_chat
    /\ LET user_id == _active_chat[manager_id].user_id
       IN /\ _active_chat' = Pop(_active_chat, manager_id)
          /\ _users_in_chat' = _users_in_chat \ {user_id}
          /\ _user_to_manager' = Pop(_user_to_manager, user_id)
    /\ UNCHANGED <<replying, relayed, poller_state,
                   add_car_form>>

\* mgr_relay_to_user lines 635-647: the text of a manager goes to the user
\* of the manager's conversation.
mgr_relay_to_user(manager_id) ==
    /\ manager_id \in DOMAIN _active_chat
    /\ relayed' = <<manager_id, _active_chat[manager_id].user_id>>
    /\ UNCHANGED <<_active_chat, _users_in_chat, _user_to_manager, replying,
                   poller_state,
                   add_car_form>>

\* user_relay_to_manager lines 652-663: the text of a user in a
\* conversation goes to the manager _user_to_manager names.
user_relay_to_manager(user_id) ==
    /\ user_id \in _users_in_chat
    /\ user_id \in DOMAIN _user_to_manager
    /\ relayed' = <<user_id, _user_to_manager[user_id]>>
    /\ UNCHANGED <<_active_chat, _users_in_chat, _user_to_manager, replying,
                   poller_state,
                   add_car_form>>

\* Updates are handled as concurrent tasks (Dispatcher.start_polling,
\* __main__.py line 29): the handlers of the relay chat interleave at
\* their awaits.
NextRelay ==
    \/ \E c \in Calls : cb_reply_to_user(c[1], c[2])
    \/ \E c \in Calls : cb_reply_resumes(c[1], c[2])
    \/ \E manager_id \in Managers : cmd_end_chat(manager_id)
    \/ \E manager_id \in Managers : mgr_relay_to_user(manager_id)
    \/ \E user_id \in Clients : user_relay_to_manager(user_id)

SpecRelay == InitWith(<<>>, {}) /\ [][NextRelay]_vars

\* ------------------------------------------------------ the add-car form
\* The dispatcher is built with its defaults (__main__.py line 21): the
\* FSM storage is in memory, so update_data, set_state, get_data and clear
\* do not suspend and a step handler has run them all before its first
\* real await, the reply; callback.answer() and the commit do suspend.
\* The keys that process_url and cb_confirm index without a default.
FormKeys ==
    {"title", "year", "mileage", "fuel", "engine", "transmission", "price",
     "auction_end"}

Texts == {"skip", "x"}

\* What a manager types as the end of the auction: text that strptime
\* rejects, or a time before, at or after the clock.
EndTexts == {BadDate, Date(0), Date(POLL_INTERVAL), Date(700)}

FreeSlot == CHOOSE n \in Slots : calls[n] = Idle /\ \A m \in 1..(n - 1) : calls[m] # Idle

\* A handler suspends in its first await.
Suspend(user, handler) ==
    /\ \E n \in Slots : calls[n] = Idle
    /\ calls' = [calls EXCEPT ![FreeSlot] =
                    [user |-> user, handler |-> handler, at |-> "answer"]]

\* state.update_data(key=value) and state.set_state(next).
Answered(user, key, value, next) ==
    /\ fsm' = [fsm EXCEPT ![user] =
                  [state |-> next, data |-> Put(fsm[user].data, key, value)]]
    /\ saved' = [saved EXCEPT ![user] = FALSE]
    /\ UNCHANGED <<calls, relay_chat, poller_state>>

\* add_car.cb_start_add_car lines 67-69, up to callback.answer().
cb_start_add_car(user) ==
    /\ _is_manager(user)
    /\ Suspend(user, "start")
    /\ UNCHANGED <<fsm, saved, relay_chat, poller_state>>

\* add_car.cb_start_add_car lines 70-74.
cb_start_add_car_resumes(n) ==
    /\ calls[n].handler = "start"
    /\ fsm' = [fsm EXCEPT ![calls[n].user].state = "title"]
    /\ calls' = [calls EXCEPT ![n] = Idle]
    /\ UNCHANGED <<saved, relay_chat, poller_state>>

\* An entry point whose filter does not look at the role.
msg_start_add_carAnyone(user) ==
    /\ fsm' = [fsm EXCEPT ![user].state = "title"]
    /\ UNCHANGED <<calls, saved, relay_chat, poller_state>>

\* add_car.msg_start_add_car lines 77-83.
msg_start_add_car(user) ==
    /\ _is_manager(user)
    /\ fsm' = [fsm EXCEPT ![user].state = "title"]
    /\ UNCHANGED <<calls, saved, relay_chat, poller_state>>

\* add_car.process_title lines 89-93.
process_title(user, text) ==
    fsm[user].state = "title" /\ Answered(user, "title", text, "year")

\* add_car.process_year lines 99-103.
process_year(user, text) ==
    fsm[user].state = "year" /\ Answered(user, "year", text, "mileage")

\* add_car.process_mileage lines 109-113.
process_mileage(user, text) ==
    fsm[user].state = "mileage" /\ Answered(user, "mileage", text, "fuel")

\* add_car.process_fuel lines 119-123.
process_fuel(user, text) ==
    fsm[user].state = "fuel" /\ Answered(user, "fuel", text, "engine")

\* add_car.process_engine lines 129-133.
process_engine(user, text) ==
    fsm[user].state = "engine" /\ Answered(user, "engine", text, "transmission")

\* add_car.process_transmission lines 139-143.
process_transmission(user, text) ==
    fsm[user].state = "transmission"
        /\ Answered(user, "transmission", text, "price")

\* add_car.process_price lines 149-153.
process_price(user, text) ==
    fsm[user].state = "price" /\ Answered(user, "price", text, "auction_end")

\* A step that also accepts the current time.
process_auction_endNotStrict(user, text) ==
    /\ fsm[user].state = "auction_end"
    /\ IF ~text.fmt \/ text.t < now
       THEN UNCHANGED vars
       ELSE Answered(user, "auction_end", text.t, "photo")

\* add_car.process_auction_end lines 159-173: a text that does not parse,
\* or a time that is not after the clock, is answered and nothing else.
process_auction_end(user, text) ==
    /\ fsm[user].state = "auction_end"
    /\ IF ~text.fmt \/ text.t <= now
       THEN UNCHANGED vars
       ELSE Answered(user, "auction_end", text.t, "photo")

\* add_car.process_photo_file lines 179-184.
process_photo_file(user) ==
    fsm[user].state = "photo" /\ Answered(user, "image_file_id", "file", "url")

\* add_car.process_photo_skip lines 187-195; "" stands for None.
process_photo_skip(user, text) ==
    /\ fsm[user].state = "photo"
    /\ IF text # "skip"
       THEN UNCHANGED vars
       ELSE Answered(user, "image_file_id", "", "url")

\* add_car.process_url lines 201-230: the summary raises KeyError, after
\* update_data and before set_state, when a key is missing.
process_url(user, text) ==
    /\ fsm[user].state = "url"
    /\ LET url == IF text = "skip" THEN "" ELSE text
           data == Put(fsm[user].data, "url", url)
       IN Answered(user, "url", url,
                   IF FormKeys \subseteq DOMAIN data THEN "confirm" ELSE "url")

\* add_car.cb_confirm lines 236-238: the filter finds the state confirm and
\* the handler awaits callback.answer().
cb_confirm(user) ==
    /\ fsm[user].state = "confirm"
    /\ Suspend(user, "confirm")
    /\ UNCHANGED <<fsm, saved, relay_chat, poller_state>>

\* The row of cb_confirm lines 243-255; the id is the next of the sequence
\* and is_active takes its default.  The columns no modelled code reads
\* are left out; off_by records the caller who deactivated the row.
NewCar(data, user) ==
    [id |-> Len(manual_cars) + 1, auction_end |-> data["auction_end"],
     is_active |-> TRUE, added_by |-> user, off_by |-> 0]

\* add_car.cb_confirm lines 239-258: the data is read, which raises
\* KeyError when it has been cleared, and the row is committed.
cb_confirm_commits(n) ==
    /\ calls[n].handler = "confirm" /\ calls[n].at = "answer"
    /\ LET user == calls[n].user
           data == fsm[user].data
       IN IF FormKeys \subseteq DOMAIN data
          THEN /\ Len(manual_cars) < MaxRows
               /\ manual_cars' = Append(manual_cars, NewCar(data, user))
               /\ saved' = [saved EXCEPT ![user] = TRUE]
               /\ calls' = [calls EXCEPT ![n].at = "clear"]
          ELSE /\ calls' = [calls EXCEPT ![n] = Idle]
               /\ UNCHANGED <<manual_cars, saved>>
    /\ UNCHANGED <<fsm, relay_chat, beside_manual_cars>>

\* state.clear() of cb_confirm line 260, cb_cancel line 52 and cmd_cancel
\* line 58.
Cleared(user) ==
    /\ fsm' = [fsm EXCEPT ![user] = NoForm]
    /\ saved' = [saved EXCEPT ![user] = FALSE]

\* add_car.cb_confirm lines 260-263.
cb_confirm_clears(n) ==
    /\ calls[n].handler = "confirm" /\ calls[n].at = "clear"
    /\ Cleared(calls[n].user)
    /\ calls' = [calls EXCEPT ![n] = Idle]
    /\ UNCHANGED <<relay_chat, poller_state>>

\* add_car.cb_cancel lines 49-51: the filter finds a state of the form and
\* the handler awaits callback.answer().
cb_cancel(user) ==
    /\ fsm[user].state # "none"
    /\ Suspend(user, "cancel")
    /\ UNCHANGED <<fsm, saved, relay_chat, poller_state>>

\* add_car.cb_cancel lines 52-53.
cb_cancel_clears(n) ==
    /\ calls[n].handler = "cancel"
    /\ Cleared(calls[n].user)
    /\ calls' = [calls EXCEPT ![n] = Idle]
    /\ UNCHANGED <<relay_chat, poller_state>>

\* add_car.cmd_cancel lines 56-59.
cmd_cancel(user) ==
    /\ fsm[user].state # "none"
    /\ Cleared(user)
    /\ UNCHANGED <<calls, relay_chat, poller_state>>

\* The manager and the user who write to the bot.
FormActors == {11, 1}

\* The handlers of the form; poll_new_offers stays suspended at an await.
Form ==
    \/ \E user \in FormActors : cb_start_add_car(user)
    \/ \E n \in Slots : cb_start_add_car_resumes(n)
    \/ \E user \in FormActors : msg_start_add_car(user)
    \/ \E user \in FormActors : process_title(user, "x")
    \/ \E user \in FormActors : process_year(user, "x")
    \/ \E user \in FormActors : process_mileage(user, "x")
    \/ \E user \in FormActors : process_fuel(user, "x")
    \/ \E user \in FormActors : process_engine(user, "x")
    \/ \E user \in FormActors : process_transmission(user, "x")
    \/ \E user \in FormActors : process_price(user, "x")
    \/ \E user \in FormActors, text \in EndTexts :
           process_auction_end(user, text)
    \/ \E user \in FormActors : process_photo_file(user)
    \/ \E user \in FormActors, text \in Texts : process_photo_skip(user, text)
    \/ \E user \in FormActors, text \in Texts : process_url(user, text)
    \/ \E user \in FormActors : cb_confirm(user)
    \/ \E n \in Slots : cb_confirm_commits(n)
    \/ \E n \in Slots : cb_confirm_clears(n)
    \/ \E user \in FormActors : cb_cancel(user)
    \/ \E n \in Slots : cb_cancel_clears(n)
    \/ \E user \in FormActors : cmd_cancel(user)

\* Sources that list nothing.
FormServes == {<<Served(<<>>, "ok"), Served(<<>>, "ok"), Served(<<>>, "ok")>>}

\* A delete that does not compare the caller with added_by.
cb_delete_manual_carAnyManager(caller, car_id) ==
    /\ _is_manager(caller)
    /\ car_id \in 1..Len(manual_cars)
    /\ manual_cars' =
           [manual_cars EXCEPT ![car_id] =
               [@ EXCEPT !.is_active = FALSE, !.off_by = caller]]
    /\ UNCHANGED <<add_car_form, relay_chat, beside_manual_cars>>

\* add_car.cb_delete_manual_car lines 310-327: the row with the id, which
\* is its place in the table, is deactivated when the caller is a manager
\* and added it; otherwise the caller is answered and nothing is written.
\* The awaits of the handler lie between reads of columns that never
\* change and its one write.
cb_delete_manual_car(caller, car_id) ==
    /\ _is_manager(caller)
    /\ car_id \in 1..Len(manual_cars)
    /\ manual_cars[car_id].added_by = caller
    /\ manual_cars' =
           [manual_cars EXCEPT ![car_id] =
               [@ EXCEPT !.is_active = FALSE, !.off_by = caller]]
    /\ UNCHANGED <<add_car_form, relay_chat, beside_manual_cars>>

\* Two managers and a user press the delete button of an entry, or of an
\* id that no row has.
Delete ==
    /\ Suspended
    /\ \E caller \in {11, 12, 1}, car_id \in 1..3 :
           cb_delete_manual_car(caller, car_id)

\* An entry of each manager, the first a favorite of user 1, both under
\* 12h and under 3h from the start.
NextDelete ==
    Warm(FormServes) \/ Steady(FormServes, DeleteCycles) \/ Subscribe \/ Delete

SpecDelete ==
    /\ InitWith(<<[id |-> 1, auction_end |-> 700, is_active |-> TRUE,
                   added_by |-> 11, off_by |-> 0],
                  [id |-> 2, auction_end |-> 700, is_active |-> TRUE,
                   added_by |-> 12, off_by |-> 0]>>,
                {<<1, "manual_1">>})
    /\ [][NextDelete]_vars

\* An offer whose card changes its title and loses its image, that
\* leaves the listing, and that comes under 12h after the start.
CacheServes ==
    {<<Served(page, "ok"), Served(<<>>, "http"), Served(<<>>, "ok")>> :
        page \in { <<Card(LotText("7"), Date(TWELVE_HOURS + 1))>>,
                   <<CardWith(LotText("7"), Date(TWELVE_HOURS + 1),
                              <<"BMW">>, FALSE)>>,
                   <<>> }}

SpecCache ==
    InitWith(<<>>, {}) /\ [][\/ Warm(CacheServes) \/ Steady(CacheServes, CacheCycles)
              \/ Subscribe \/ Favor]_vars

\* ------------------------------------------------- one pass, any input
\* The pages of at most MaxCards cards a source can serve to the pass of
\* SpecPass.  Ids repeat within and across sources, end times tie, fail
\* to parse or lie more than 999999 seconds ahead, one card has no id and
\* one carries an id that starts with "manual_".
PagesOf(cards) == UNION {[1..n -> cards] : n \in 0..MaxCards}

PassAxa ==
    { Card(LotText("7"), Date(POLL_INTERVAL + 500)),
      Card(LotText("9"), Date(POLL_INTERVAL + TWELVE_HOURS + 100)) }

PassRest ==
    { Card(LotText("5"), Date(POLL_INTERVAL + 10)),
      Card(LotText("8"), BadDate),
      Card(<<>>, Date(POLL_INTERVAL + 10)) }

PassAllianz ==
    { Card(LotText("7"), Date(POLL_INTERVAL + UNKNOWN_SECONDS + 1)),
      Card(LotText("manual_1"), Date(POLL_INTERVAL + 500)) }

Outcomes(cards) ==
    {Served(p, "ok") : p \in PagesOf(cards)}
        \cup {Served(<<>>, "exc"), Served(<<>>, "http")}

PassServes ==
    {<<a, r, z>> : a \in Outcomes(PassAxa), r \in Outcomes(PassRest),
                   z \in Outcomes(PassAllianz)}

PassTables ==
    { <<>>,
      <<[id |-> 1, auction_end |-> POLL_INTERVAL + 500, is_active |-> TRUE],
        [id |-> 2, auction_end |-> POLL_INTERVAL + 500, is_active |-> TRUE]>> }

\* A warm start, or a steady cycle that is about to fetch.
InitPassWith(serves, tables) ==
    \E sv \in serves, rows \in tables, first \in BOOLEAN :
        /\ served = sv
        /\ now = IF first THEN 0 ELSE POLL_INTERVAL
        /\ pc = IF first THEN "warm_fetch" ELSE "fetch"
        /\ offers = <<>>
        /\ k = 1
        /\ cached_offers = <<>>
        /\ subscribers = {}
        /\ _seen_ids = {}
        /\ _notified_12h = {}
        /\ _notified_3h = {}
        /\ _offer_cache = <<>>
        /\ manual_cars = rows
        /\ favorites = {}
        /\ sent = <<>>
        /\ start_urgent = {}
        /\ warm_under = {}
        /\ streak = <<>>
        /\ sending = NoDelivery
        /\ lost = {}
        /\ lossy = FALSE
        /\ favs_read = FALSE
        /\ _fetch_lock = TRUE
        /\ in_fetch = 1
    /\ _active_chat = <<>>
    /\ _users_in_chat = {}
    /\ _user_to_manager = <<>>
    /\ replying = [c \in Calls |-> 0]
    /\ relayed = <<>>
    /\ fsm = [u \in Managers \cup Clients |-> NoForm]
    /\ calls = [n \in Slots |-> Idle]
    /\ saved = [u \in Managers \cup Clients |-> FALSE]

InitPass == InitPassWith(PassServes, PassTables)

NextPass ==
    \/ WarmFetch(served)
    \/ \E failed \in BOOLEAN : WarmMerge(failed)
    \/ SteadyFetch(served)
    \/ \E failed \in BOOLEAN : SteadyMerge(failed)

SpecPass == InitPass /\ [][NextPass]_vars

\* One pass over AXA pages whose cards lack an element: the h3, the
\* p.auction-id, the image, or the h3 of a card whose id text would not parse.
CardsAxa ==
    { Card(LotText("7"), Date(POLL_INTERVAL + 500)),
      CardWith(LotText("5"), Date(POLL_INTERVAL + 10), <<>>, TRUE),
      CardWith(<<>>, Date(POLL_INTERVAL + 10), <<"Audi">>, TRUE),
      CardWith(LotText("6"), Date(POLL_INTERVAL + 20), <<"Audi">>, FALSE),
      CardWith(<<"ID", ":">>, Date(POLL_INTERVAL + 10), <<>>, TRUE) }

CardsServes ==
    {<<Served(p, "ok"), r, Served(<<Card(LotText("8"), Date(THREE_HOURS))>>, "ok")>> :
        p \in PagesOf(CardsAxa), r \in {Served(<<>>, "ok"), Served(<<>>, "exc")}}

SpecCards == InitPassWith(CardsServes, {<<>>}) /\ [][NextPass]_vars

\* The form while poll_new_offers is suspended in a fetch, the first or
\* the one after the first sleep, of sources that list nothing.
SpecForm == InitPassWith(FormServes, {<<>>}) /\ [][Form]_vars

\* ------------------------------------------------------------- claims
\* C1: the urgent tier sends for an offer id in at most one cycle: every
\* 12h message of an id was sent by the first steady cycle that published
\* the id under 12h, the cycle that put it into _notified_12h, and no 12h
\* message is ever sent for an id that the warm start put there.
C1_UrgentAtMostOneCycle ==
    \A m \in DOMAIN sent :
        m.tier = "12h" =>
            /\ m.id \in _notified_12h
            /\ m.id \in DOMAIN streak /\ m.at = streak[m.id].since
            /\ m.id \in warm_under => IsManualId(m.id)

\* A later cycle has published the offer under 12h again and is over.
C1_Witness ==
    /\ pc = "sleep"
    /\ \E m \in DOMAIN sent :
           /\ m.tier = "12h" /\ m.at < now
           /\ m.id \in Under(cached_offers, TWELVE_HOURS)

\* C2: the 3h warning of a (user, offer) pair is sent at most once: pairs
\* are never taken out of _notified_3h, and a step hands a 3h message for
\* a pair to the bot only once and only if the pair was not in _notified_3h
\* before the step.
C2_FavoriteAtMostOnce ==
    [][/\ _notified_3h \subseteq _notified_3h'
       /\ \A m \in DOMAIN sent' :
              m.tier = "3h" /\ Copies(sent', m) > Copies(sent, m)
                  => /\ <<m.chat, m.id>> \notin _notified_3h
                     /\ <<m.chat, m.id>> \in _notified_3h'
                     /\ Sends(sent', "3h", m.chat, m.id) = 1]_vars

\* A later check has found the pair a favorite with the offer under 3h.
C2_Witness ==
    /\ pc = "sleep"
    /\ \E m \in DOMAIN sent :
           /\ m.tier = "3h" /\ m.at < now
           /\ <<m.chat, m.id>> \in favorites
           /\ m.id \in Under(cached_offers, THREE_HOURS)

\* The id went under 12h after the warm start, has been published under 12h
\* by every steady cycle since, n of them, and the subscribers are those of
\* the first of these cycles.
Crossed(id, n) ==
    /\ id \in DOMAIN streak
    /\ id \notin warm_under \cup start_urgent
    /\ streak[id].live /\ streak[id].n = n
    /\ streak[id].subs # {} /\ subscribers = streak[id].subs
    /\ pc # "urgent"

\* C3: over the 5 cycles in a row that publish under 12h an offer that was
\* not under 12h at the warm start, with a fixed set of subscribers that is
\* not empty, every subscriber is sent one 12h message for the offer, by the
\* first of the cycles.
C3_CrossingNotifiedOnce ==
    \A id \in DOMAIN streak, n \in 1..5 :
        Crossed(id, n) =>
            \A c \in subscribers :
                /\ Sends(sent, "12h", c, id) = 1
                /\ Copies(sent, Msg("12h", c, id, streak[id].since)) = 1

\* The fifth cycle in a row is over, with two subscribers.
C3_Witness ==
    /\ pc = "sleep"
    /\ subscribers = Chats
    /\ \E id \in DOMAIN streak :
           /\ Crossed(id, 5)
           /\ now = streak[id].since + 4 * POLL_INTERVAL

\* C4: after the warm start a scraped record under 12h is in _notified_12h
\* and a manual record under 12h is not, no message sent for either; the
\* first steady cycle that publishes the manual record puts its id in
\* _notified_12h and sends its 12h message to the subscribers.
C4_RestartAsymmetry ==
    /\ now = 0 /\ pc \in {"warm_favs", "sleep"} =>
           \A i \in 1..Len(cached_offers) :
               LET o == cached_offers[i] IN
               o.auction_end_seconds < TWELVE_HOURS =>
                   /\ o.source = "Manager" => o.id \notin _notified_12h
                   /\ o.source # "Manager" => o.id \in _notified_12h
                   /\ \A m \in DOMAIN sent : m.id # o.id
    /\ \A id \in DOMAIN streak :
           /\ IsManualId(id) /\ id \in warm_under
           /\ streak[id].live /\ streak[id].n = 1
           /\ now = streak[id].since /\ pc \in {"favs", "sleep"}
           => /\ id \in _notified_12h
              /\ \A c \in streak[id].subs :
                     Copies(sent, Msg("12h", c, id, now)) = 1

\* C5: the warm start hands no message to the bot.
C5_WarmStartSilent == now = 0 => DOMAIN sent = {}

\* The warm start is over: it has marked a scraped offer and a favorite,
\* with a manual car under 12h in the snapshot and a subscriber.
C5_Witness ==
    /\ now = 0 /\ pc = "sleep"
    /\ subscribers # {}
    /\ _notified_12h # {}
    /\ _notified_3h # {}
    /\ \E i \in 1..Len(cached_offers) :
           /\ cached_offers[i].source = "Manager"
           /\ cached_offers[i].auction_end_seconds < TWELVE_HOURS

\* C6: no 12h message is ever sent for a scraped offer that the sources
\* listed under 12h when the process started.
C6_StartUrgentNeverNotified ==
    \A m \in DOMAIN sent : m.tier = "12h" => m.id \notin start_urgent

\* The list fetch_offers returned to the pass that awaits the manual cars.
Fetched == IF pc = "manual" THEN offers ELSE cached_offers

Lists(i, id) ==
    /\ Usable(Gathered(served)[i])
    /\ \E j \in 1..Len(served[i].page) : lot_id(served[i].page[j].aid) = id

FirstListing(id) ==
    LET i == CHOOSE h \in 1..3 : Lists(h, id) /\ \A g \in 1..(h - 1) : ~Lists(g, id)
        page == served[i].page
        j == CHOOSE h \in 1..Len(page) :
                /\ lot_id(page[h].aid) = id
                /\ \A g \in 1..(h - 1) : lot_id(page[g].aid) # id
    IN ParseCard(page[j], sources[i], now)

\* C7: an id that one or several sources return is once in the list that
\* fetch_offers returns, as the record of the first source, in the order
\* AXA, REST, Allianz, that returned it.
C7_DedupFirstSourceWins ==
    pc \in {"manual", "warm_manual"} =>
        \A i \in 1..3, id \in {"5", "7", "8", "9", "manual_1"} :
            Lists(i, id) =>
                /\ Cardinality({n \in 1..Len(Fetched) : Fetched[n].id = id}) = 1
                /\ \A n \in 1..Len(Fetched) :
                       Fetched[n].id = id => Fetched[n] = FirstListing(id)

\* Offer 7 is returned by AXA and by Allianz with different end times.
C7_Witness ==
    /\ pc \in {"manual", "warm_manual"}
    /\ Lists(1, "7") /\ Lists(3, "7")
    /\ \E n \in 1..Len(Fetched) : Fetched[n].id = "7" /\ Fetched[n].source = "AXA"

\* C8: no two records of a published snapshot share an id.
C8_SnapshotIdsUnique ==
    \A i, j \in 1..Len(cached_offers) :
        i # j => cached_offers[i].id # cached_offers[j].id

\* The records of the pass in the order of the merge: the deduplicated
\* records source by source, then the manual cars in the order of the table.
MergeOrder ==
    Unique(Gathered(served), now) \o ManualItems(ActiveRows(manual_cars), now)

MergePos(o) == CHOOSE n \in 1..Len(MergeOrder) : MergeOrder[n] = o

\* C9: a published snapshot is in ascending order of the remaining seconds,
\* and records with the same remaining seconds are in the order of the merge.
C9_SortedStable ==
    \A i, j \in 1..Len(cached_offers) :
        i < j =>
            LET a == cached_offers[i]
                b == cached_offers[j]
            IN /\ a.auction_end_seconds <= b.auction_end_seconds
               /\ a.auction_end_seconds = b.auction_end_seconds
                    => MergePos(a) < MergePos(b)

\* The merge order 500, 43300, 10, 999999 with a manual car that ties at 500.
C9_Witness ==
    /\ pc = "urgent"
    /\ [i \in 1..Len(cached_offers) |-> cached_offers[i].auction_end_seconds]
          = <<10, 500, 500, 500, 43300, 999999>>
    /\ cached_offers[2].source = "AXA"
    /\ cached_offers[3].id = "manual_1" /\ cached_offers[4].id = "manual_2"

\* C10: a record whose end time did not parse has 999999 remaining seconds,
\* which is under neither threshold, and stands in the snapshot after every
\* record whose end time parsed.
C10_UnparseableLast ==
    \A i \in 1..Len(cached_offers) :
        ~cached_offers[i].auction_end.fmt =>
            /\ cached_offers[i].auction_end_seconds = UNKNOWN_SECONDS
            /\ cached_offers[i].auction_end_seconds >= TWELVE_HOURS
            /\ \A j \in 1..Len(cached_offers) :
                   cached_offers[j].auction_end.fmt => j < i

\* ------------------------------------------- the two tiers of one cycle
\* The list of the cycle in progress: this pass's pages and the manual cars,
\* merged and sorted at this cycle's time.
ThisCycle(list) ==
    \E failed \in BOOLEAN :
        list = MergeManual(fetch_offers(Gathered(served), now),
                           _load_manual_cars(manual_cars, failed, now))

\* The record of the id in the list is under the limit.
UnderIn(list, id, limit) ==
    \E n \in 1..Len(list) :
        list[n].id = id /\ list[n].auction_end_seconds < limit

\* ----------------------------------------------- failures and interleaving
\* Exactly one of the three requests failed: it raised or its status is not 200.
OneFails(sv) == Cardinality({i \in 1..3 : sv[i].outcome # "ok"}) = 1

\* The ids on the pages of the requests that succeeded.
ListedIds(sv) ==
    UNION {{lot_id(sv[i].page[j].aid) :
                j \in {h \in 1..Len(sv[i].page) : ~LotIdRaises(sv[i].page[h].aid)}} :
           i \in {h \in 1..3 : sv[h].outcome = "ok"}} \ {""}

\* C11: in a pass in which one request fails and the two others succeed,
\* fetch_offers returns, with one record for every id of the two pages, and
\* the steady cycle publishes them and goes on to the 12h loop.
C11_PartialSourceFailure ==
    [][/\ (pc \in {"warm_fetch", "fetch"} /\ pc' # pc /\ OneFails(served')) =>
            /\ pc' \in {"warm_manual", "manual"}
            /\ \A id \in ListedIds(served') :
                   Cardinality({n \in 1..Len(Fetched') : Fetched'[n].id = id}) = 1
       /\ (pc = "manual" /\ pc' # pc) =>
            /\ pc' = "urgent"
            /\ Ids(offers) \subseteq Ids(cached_offers')]_vars

\* The list is in ascending order of remaining seconds.
Ascending(list) ==
    \A i, j \in 1..Len(list) :
        i < j => list[i].auction_end_seconds <= list[j].auction_end_seconds

\* C12: whenever the poller is suspended in an await and a handler can read
\* cached_offers, the list is the finished result of a pass: the step that
\* ends the await on the manual cars, at warm start or in a steady cycle,
\* finds the list a handler could read already merged and sorted, and so does
\* not change what was published during the await.
C12_SnapshotAtomic ==
    [][/\ (pc = "warm_manual" /\ pc' # pc) =>
            cached_offers' = cached_offers
       /\ (pc = "fetch" /\ pc' = "manual") => cached_offers' = cached_offers
       /\ Suspended' => Ascending(cached_offers')]_vars

\* C13: a steady cycle whose fetch raises (the wake-up and the failed fetch)
\* leaves cached_offers, _notified_12h and _notified_3h as they were, so
\* readers keep the previous snapshot.
C13_FailedCycleKeepsSnapshot ==
    [][((pc = "sleep" /\ pc' = "fetch") \/ (pc = "fetch" /\ pc' = "sleep")) =>
            /\ cached_offers' = cached_offers
            /\ _notified_12h' = _notified_12h
            /\ _notified_3h' = _notified_3h]_vars

\* A steady cycle has just failed and the snapshot of an earlier pass, with
\* its notified ids, is still published.
C13_Witness ==
    /\ pc = "sleep" /\ now > 0
    /\ FetchRaises(Gathered(served))
    /\ cached_offers # <<>>
    /\ _notified_12h # {}

\* C14: when a steady cycle publishes its list, every offer of the previous
\* snapshot that came from a source whose request failed in this cycle is
\* still in the published list.
C14_FailedSourceStaysVisible ==
    [][(pc = "manual" /\ pc' = "urgent") =>
            \A i \in 1..3 :
                served[i].outcome # "ok" =>
                    \A n \in 1..Len(cached_offers) :
                        cached_offers[n].source = sources[i] =>
                            cached_offers[n].id \in Ids(cached_offers')]_vars

\* C15: every step of the poller and of the handlers leaves _notified_12h
\* and _notified_3h supersets of what they were.
C15_NotifiedMonotone ==
    [][/\ _notified_12h \subseteq _notified_12h'
       /\ _notified_3h \subseteq _notified_3h']_vars

\* Both sets hold something and a pair that was warned about has since been
\* removed from the favorites.
C15_Witness ==
    /\ _notified_12h # {}
    /\ \E key \in _notified_3h : key \notin favorites

\* C16: while the 12h loop or the favorite check of a steady cycle runs,
\* the loop's list and the published snapshot are both the merged and
\* sorted list of this cycle, and every offer the two tiers pick in the
\* cycle is under the tier's threshold in that list.
C16_TiersReadThisCycle ==
    /\ pc \in {"urgent", "favs"} =>
            /\ offers = cached_offers
            /\ ThisCycle(cached_offers)
    /\ sending.id # "" => UnderIn(cached_offers, sending.id, TWELVE_HOURS)
    /\ \A m \in DOMAIN sent :
            (now > 0 /\ m.at = now) =>
                UnderIn(cached_offers, m.id,
                        IF m.tier = "12h" THEN TWELVE_HOURS ELSE THREE_HOURS)

\* A steady cycle has finished its 12h loop with a manual car in the list
\* and is about to warn a user about a favorite.
C16_Witness ==
    /\ pc = "favs" /\ now > 0
    /\ \E n \in 1..Len(cached_offers) : IsManualId(cached_offers[n].id)
    /\ FavHits(cached_offers, favorites, _notified_3h) # {}
    /\ _notified_12h # {}

\* C17: an id is in _notified_12h by the 12h loop only once the urgent
\* notification has been attempted for every subscriber of the loop's list:
\* no state has the loop's offer marked with a send still to be attempted.
C17_MarkedAfterNotified ==
    (pc = "urgent" /\ sending.id \in _notified_12h) =>
        \A chat \in sending.all :
            Sends(sent, "12h", chat, sending.id) > 0

\* The favorite pairs the check of a steady cycle has to warn about: the
\* offer is in the snapshot under 3h and the pair is not yet notified.
Qualifying ==
    {f \in favorites :
        UnderIn(cached_offers, f[2], THREE_HOURS) /\ f \notin _notified_3h}

\* C18: the favorite check of a steady cycle sends one warning for each
\* qualifying pair, to the pair's user, and inserts the pair, or does
\* nothing when the favorites could not be read; it sends nothing else and
\* inserts no other pair.
C18_FavoriteTargeting ==
    [][(pc = "favs" /\ pc' # pc) =>
            /\ \/ ~favs_read' /\ sent' = sent /\ _notified_3h' = _notified_3h
               \/ favs_read' /\ \A f \in Qualifying :
                      /\ Copies(sent', Msg("3h", f[1], f[2], now))
                            = Copies(sent, Msg("3h", f[1], f[2], now)) + 1
                      /\ f \in _notified_3h'
            /\ \A m \in DOMAIN sent' :
                   Copies(sent', m) > Copies(sent, m) =>
                       m.tier = "3h" /\ <<m.chat, m.id>> \in Qualifying
            /\ _notified_3h' \ _notified_3h \subseteq Qualifying]_vars

\* C19: a send of the 12h loop that fails leaves the loop at the next chat
\* of its list; the loop is left only with every chat attempted and every
\* offer evaluated, and then for the favorite check; and a favorite check
\* that read the favorites attempts the warning of every pair it picks,
\* whichever of them fail.
C19_DeliveryFailureIsolated ==
    [][/\ (pc = "urgent" /\ lost' # lost) =>
            /\ pc' = "urgent"
            /\ sending'.chats = Tail(sending.chats)
            /\ sending'.id = sending.id
       /\ (pc = "urgent" /\ pc' # pc) =>
            /\ sending.chats = <<>>
            /\ \A n \in 1..Len(offers) :
                   offers[n].auction_end_seconds < TWELVE_HOURS =>
                       /\ offers[n].id \in _notified_12h
            /\ pc' = "favs" \/ cached_offers = <<>>
       /\ (pc = "favs" /\ pc' # pc /\ favs_read') =>
            \A f \in FavHits(cached_offers, favorites, _notified_3h) :
                Copies(sent', Msg("3h", f[1], f[2], now))
                    = Copies(sent, Msg("3h", f[1], f[2], now)) + 1]_vars

\* In one cycle the urgent send to one subscriber failed, the next
\* subscriber and the next offer were served, and of two favorite warnings
\* one failed and the other was delivered.
C19_Witness ==
    /\ \E m \in lost, w \in DOMAIN sent \ lost, v \in DOMAIN sent :
           /\ m.tier = "12h" /\ w.tier = "12h" /\ v.tier = "12h"
           /\ w.id = m.id /\ w.chat > m.chat
           /\ v.id # m.id /\ v.at = m.at
    /\ \E y \in lost, z \in DOMAIN sent \ lost :
           /\ y.tier = "3h" /\ z.tier = "3h"
           /\ z.at = y.at /\ z.chat # y.chat

\* C20: whatever fails, the warm start and every steady cycle end in the
\* sleep, and every sleep (up to the horizon LiveCycles of the model) is
\* followed by the fetch of another cycle.
C20_PollerNeverStops ==
    /\ (pc # "sleep") ~> (pc = "sleep")
    /\ (pc = "sleep" /\ now < LiveCycles * POLL_INTERVAL) ~> (pc = "fetch")

\* The warm start failed, a send of the steady cycle after it failed, and
\* the poller sleeps again.
C20_Witness ==
    /\ pc = "sleep" /\ now > 0
    /\ _seen_ids # {} /\ warm_under = {}
    /\ lost # {}

\* ------------------------------------------------------- passes and store
\* C21: at most one execution of fetch_offers is in progress, it holds the
\* lock, and it runs only while the poller is at the fetch of a pass, with
\* no merge and no delivery of an earlier cycle still going on.
C21_OnePassAtATime ==
    /\ in_fetch \in {0, 1}
    /\ _fetch_lock <=> in_fetch = 1
    /\ in_fetch = 1 <=> pc \in {"warm_fetch", "fetch"}
    /\ in_fetch = 1 => sending = NoDelivery /\ k = 1

\* A later cycle is fetching after a cycle that sent notifications.
C21_Witness ==
    /\ pc = "fetch" /\ in_fetch = 1
    /\ now > POLL_INTERVAL
    /\ \E m \in DOMAIN sent : m.at < now

\* C22: every manual record of the snapshot has at least one second left as
\* computed at the clock of the cycle that built the snapshot, and a
\* snapshot built at or after a car's end time does not hold the car.
C22_NoEndedManualEntry ==
    \A n \in 1..Len(cached_offers) :
        cached_offers[n].source = "Manager" =>
            LET made == cached_offers[n].auction_end.t
                            - cached_offers[n].auction_end_seconds
            IN /\ cached_offers[n].auction_end_seconds >= 1
               /\ made \in 0..now /\ made % POLL_INTERVAL = 0
               /\ pc \in {"warm_favs", "urgent", "favs"} => made = now

\* A cycle at or after the end of car 1 has published car 2 without car 1,
\* whose row is still active in the table.
C22_Witness ==
    /\ pc = "urgent" /\ now >= 2 * POLL_INTERVAL
    /\ "manual_2" \in Ids(cached_offers)
    /\ "manual_1" \notin Ids(cached_offers)
    /\ \E r \in 1..Len(manual_cars) :
           manual_cars[r].id = 1 /\ manual_cars[r].is_active

\* The list has no record of a manual car.
NoManual(list) == \A n \in 1..Len(list) : list[n].source # "Manager"

C24_IncompleteCardSkipped ==
    pc \in {"warm_manual", "manual"} =>
        /\ \A n \in 1..Len(Fetched) :
               /\ Fetched[n].title # ""
               /\ Fetched[n].id # ""
               /\ Fetched[n].image_url # ""
        /\ \A i \in 1..3 :
               served[i].outcome = "ok" =>
                   \A j \in 1..Len(served[i].page) :
                       LET card == served[i].page[j]
                       IN (card.h3 # <<>> /\ card.img /\ lot_id(card.aid) # "")
                              => lot_id(card.aid) \in Ids(Fetched)

\* C25: a pass in which a fetched page holds a card whose id text does not
\* parse returns all the same, with the ids of the other cards of the pages,
\* and the cycle goes on to the merge.
C25_CardErrorDropsCard ==
    [][(/\ pc \in {"warm_fetch", "fetch"} /\ pc' # pc
        /\ \E i \in 1..3 :
               served'[i].outcome = "ok" /\ ParseRaises(served'[i].page)) =>
            /\ pc' \in {"warm_manual", "manual"}
            /\ ListedIds(served') \subseteq Ids(Fetched')]_vars

\* The steady cycle in progress is the first to publish the id under 12h,
\* and the warm start did not mark it.
Due(id) ==
    /\ id \in DOMAIN streak /\ streak[id].since = now
    /\ id \notin warm_under \/ IsManualId(id)

\* C26: when the 12h loop of a steady cycle is over every offer of the
\* snapshot under 12h is in _notified_12h, and an offer that is under 12h
\* for the first time in this cycle, seen before or not, has had its message
\* sent in this cycle to every chat that was subscribed when the cycle
\* published its list.
C26_WholeSnapshotEvaluated ==
    pc = "favs" =>
        \A n \in 1..Len(cached_offers) :
            cached_offers[n].auction_end_seconds < TWELVE_HOURS =>
                /\ cached_offers[n].id \in _notified_12h
                /\ cached_offers[n].id \in _seen_ids
                /\ Due(cached_offers[n].id) =>
                       \A chat \in streak[cached_offers[n].id].subs :
                           Copies(sent, Msg("12h", chat, cached_offers[n].id, now)) = 1

\* The second steady cycle has notified a subscriber of offer 7, listed
\* since the warm start, and of offer 8, which no earlier pass had listed.
C26_Witness ==
    /\ pc = "favs" /\ now = 2 * POLL_INTERVAL
    /\ Due("7") /\ Due("8")
    /\ \E chat \in Chats :
           /\ Msg("12h", chat, "7", now) \in DOMAIN sent
           /\ Msg("12h", chat, "8", now) \in DOMAIN sent

\* ------------------------------------------------ subscribers, thresholds
\* C27: no step removes a chat from subscribers; the list the 12h loop
\* takes for an offer is the registered chats, each once; and when the
\* delivery of the offer is over each of them has been sent the offer's
\* message once, as no chat ever is sent it twice.
C27_SubscribersAppendOnly ==
    [][/\ subscribers \subseteq subscribers'
       /\ sending'.id \notin {sending.id, ""} =>
            /\ Len(sending'.chats) = Cardinality(subscribers)
            /\ {sending'.chats[n] : n \in 1..Len(sending'.chats)} = subscribers
       /\ sending'.id # sending.id =>
            \A chat \in sending.all :
                Sends(sent, "12h", chat, sending.id) = 1
       /\ \A m \in DOMAIN sent' : Sends(sent', "12h", m.chat, m.id) <= 1]_vars

\* A chat registered from the first cycle on has been sent offer 7 and, a
\* cycle later, offer 8, once each; a chat registered in between has been
\* sent offer 8 only.
C27_Witness ==
    \E c \in Chats, d \in Chats :
        /\ c # d /\ subscribers = {c, d}
        /\ Copies(sent, Msg("12h", c, "7", POLL_INTERVAL)) = 1
        /\ Copies(sent, Msg("12h", c, "8", 2 * POLL_INTERVAL)) = 1
        /\ Copies(sent, Msg("12h", d, "8", 2 * POLL_INTERVAL)) = 1
        /\ Sends(sent, "12h", d, "7") = 0

\* C28: an id enters _notified_12h, and a 12h message is handed to the bot,
\* only for an offer with fewer than 43200 seconds left in the list that is
\* evaluated; a pair enters _notified_3h, and a 3h warning is handed to
\* the bot, only for an offer with fewer than 10800 seconds left in it.
C28_StrictThresholds ==
    [][/\ \A id \in _notified_12h' \ _notified_12h :
              IF pc = "urgent" THEN UnderIn(offers, id, TWELVE_HOURS)
              ELSE UnderIn(cached_offers', id, TWELVE_HOURS)
       /\ \A f \in _notified_3h' \ _notified_3h :
              UnderIn(cached_offers, f[2], THREE_HOURS)
       /\ \A m \in DOMAIN sent' :
              Copies(sent', m) > Copies(sent, m) =>
                  IF m.tier = "12h" THEN UnderIn(offers, m.id, TWELVE_HOURS)
                  ELSE UnderIn(cached_offers, m.id, THREE_HOURS)]_vars

\* The first steady cycle is over: offer 7 had exactly 43200 seconds left
\* and is not notified, offer 5 had 43199 and is; favorite 8 had exactly
\* 10800 and is not warned, favorite 9 had 10799 and is.
C28_Witness ==
    /\ pc = "sleep" /\ now = POLL_INTERVAL
    /\ \E n \in 1..Len(cached_offers) :
           cached_offers[n].id = "7"
               /\ cached_offers[n].auction_end_seconds = TWELVE_HOURS
    /\ \E n \in 1..Len(cached_offers) :
           cached_offers[n].id = "8"
               /\ cached_offers[n].auction_end_seconds = THREE_HOURS
    /\ UnderIn(cached_offers, "5", TWELVE_HOURS)
    /\ UnderIn(cached_offers, "9", THREE_HOURS)
    /\ "7" \notin _notified_12h /\ "5" \in _notified_12h
    /\ _notified_3h = {<<1, "9">>}
    /\ \E chat \in subscribers : Copies(sent, Msg("12h", chat, "5", now)) = 1
    /\ Copies(sent, Msg("3h", 1, "9", now)) = 1
    /\ \A m \in DOMAIN sent : m.id \in {"5", "9"}

\* ------------------------------------------------------------- relay chat
\* C29: two managers never both have an _active_chat entry for the same
\* user.
C29_OneManagerPerUser ==
    \A m1 \in DOMAIN _active_chat, m2 \in DOMAIN _active_chat :
        m1 # m2 => _active_chat[m1].user_id # _active_chat[m2].user_id

\* No call of cb_reply_to_user is suspended.
Settled == \A c \in Calls : replying[c] = 0

\* C30: when no handler is suspended _users_in_chat is the key set of
\* _user_to_manager, every user in it is the user of the conversation of
\* the manager it is mapped to, and the user of every conversation is in
\* it and mapped to the manager of the conversation.
C30_RelayStateAgrees ==
    Settled =>
        /\ _users_in_chat = DOMAIN _user_to_manager
        /\ \A u \in _users_in_chat :
               /\ _user_to_manager[u] \in DOMAIN _active_chat
               /\ _active_chat[_user_to_manager[u]].user_id = u
        /\ \A m \in DOMAIN _active_chat :
               /\ _active_chat[m].user_id \in _users_in_chat
               /\ _user_to_manager[_active_chat[m].user_id] = m

\* C31: a text of a manager is passed on to a user only when the manager's
\* conversation is with that user and _user_to_manager maps the user to
\* the manager; a text of a user is passed on only when the user is in
\* _users_in_chat, to the manager _user_to_manager names, and only while
\* that manager's conversation with the user has not ended.
C31_RelayRouting ==
    [][relayed' # relayed =>
          LET from == relayed'[1]
              to == relayed'[2]
          IN IF from \in Managers
             THEN /\ from \in DOMAIN _active_chat
                  /\ _active_chat[from].user_id = to
                  /\ to \in DOMAIN _user_to_manager
                  /\ _user_to_manager[to] = from
             ELSE /\ from \in _users_in_chat
                  /\ _user_to_manager[from] = to
                  /\ to \in DOMAIN _active_chat
                  /\ _active_chat[to].user_id = from]_vars

\* ------------------------------------------------------------ add-car form
\* AddCarFSM lines 27-38 in the order of the form.
FormOrder ==
    <<"title", "year", "mileage", "fuel", "engine", "transmission", "price",
      "auction_end", "photo", "url", "confirm">>

\* The state that follows a state of the form.
After(state) ==
    FormOrder[1 + CHOOSE i \in 1..(Len(FormOrder) - 1) : FormOrder[i] = state]

\* A row is inserted in this step.
Inserts == manual_cars' # manual_cars

\* The suspended callback of the slot ends in this step.
Ends(n, handler) == calls[n].handler = handler /\ calls'[n] = Idle

\* The form moves one state at a time, to the next state, to the title or
\* to no state, and is in the confirm state only with every answer given.
FormIsLinear ==
    /\ \A u \in DOMAIN fsm :
           fsm'[u].state # fsm[u].state =>
               \/ fsm'[u].state \in {"none", "title"}
               \/ fsm[u].state \notin {"none", "confirm"}
                      /\ fsm'[u].state = After(fsm[u].state)
    /\ \A u \in DOMAIN fsm :
           fsm'[u].state = "confirm" =>
               FormKeys \cup {"image_file_id", "url"} \subseteq DOMAIN fsm'[u].data

\* A row is inserted only by a cb_confirm that started in the confirm
\* state, and a cancel clears the form and inserts nothing.
OnlyConfirmInserts ==
    /\ Inserts =>
           \E n \in Slots :
               /\ calls[n].handler = "confirm" /\ calls'[n].at = "clear"
               /\ Len(manual_cars') = Len(manual_cars) + 1
    /\ \A n \in Slots :
           calls'[n].handler = "confirm" /\ calls[n] = Idle =>
               fsm[calls'[n].user].state = "confirm"
    /\ \A n \in Slots :
           Ends(n, "cancel") =>
               fsm'[calls[n].user] = NoForm /\ ~Inserts
    /\ \A u \in DOMAIN fsm :
           fsm[u].state # "none" /\ fsm'[u].state = "none" /\ calls' = calls =>
               fsm'[u] = NoForm /\ ~Inserts

\* C32: the form is linear, only the confirm action inserts a row, a
\* cancel clears the form and inserts nothing, and no row is inserted from
\* data from which a row has been inserted already.
C32_LinearForm ==
    [][/\ FormIsLinear
       /\ OnlyConfirmInserts
       /\ \A n \in Slots :
              Inserts /\ calls'[n] # calls[n] => ~saved[calls[n].user]]_vars

\* C33: the form leaves the auction_end state for the photo state only
\* with an end time after the clock, and with the other answers as they
\* were; every row that is inserted carries the end time of the form, which
\* is after the clock of that answer (the clock stands while the poller is
\* in its fetch).
C33_EndTimeInFuture ==
    [][/\ \A u \in DOMAIN fsm :
              fsm[u].state = "auction_end" /\ fsm'[u] # fsm[u] =>
                  \/ fsm'[u].state = "none"
                  \/ fsm'[u] = [fsm[u] EXCEPT !.state = "title"]
                  \/ /\ fsm'[u].state = "photo"
                     /\ "auction_end" \in DOMAIN fsm'[u].data
                     /\ fsm'[u].data["auction_end"] > now
                     /\ \A key \in DOMAIN fsm[u].data \ {"auction_end"} :
                            fsm'[u].data[key] = fsm[u].data[key]
       /\ \A u \in DOMAIN fsm :
              "auction_end" \in DOMAIN fsm'[u].data =>
                  fsm'[u].data["auction_end"] > now
       /\ Inserts =>
              LET car == manual_cars'[Len(manual_cars')]
              IN /\ car.auction_end = fsm[car.added_by].data["auction_end"]
                 /\ car.auction_end > now]_vars

\* After the first sleep a manager has been through the form and the row
\* of the form ends later than the clock.
C33_Witness ==
    /\ now = POLL_INTERVAL
    /\ manual_cars # <<>>
    /\ \A n \in 1..Len(manual_cars) :
           manual_cars[n].auction_end = 700 /\ manual_cars[n].added_by = 11
    /\ fsm[11].state = "photo"
    /\ fsm[11].data["auction_end"] = 700

\* C34: every row of manual_cars was added by a manager, and a user who
\* is not a manager has no state of the form, no data and no suspended
\* callback of the form.
C34_OnlyManagersAdd ==
    /\ \A n \in 1..Len(manual_cars) : manual_cars[n].added_by \in Managers
    /\ \A u \in DOMAIN fsm \ Managers : fsm[u] = NoForm
    /\ \A n \in Slots : calls[n] # Idle => calls[n].user \in Managers

\* A manager has added a row, its callback has returned, and the user who
\* writes to the bot as well has no form.
C34_Witness ==
    /\ Len(manual_cars) = 1
    /\ manual_cars[1].added_by = 11
    /\ \A n \in Slots : calls[n] = Idle
    /\ \A u \in DOMAIN fsm : fsm[u] = NoForm

\* ------------------------------------------------------ manual entries
\* C35: no step removes a row or activates one; a step changes a row only
\* by deactivating it, and a row is inactive only through the manager who
\* added it.
C35_OwnerOnlySoftDelete ==
    [][/\ Len(manual_cars') >= Len(manual_cars)
       /\ \A n \in 1..Len(manual_cars) :
              \/ manual_cars'[n] = manual_cars[n]
              \/ /\ manual_cars[n].is_active
                 /\ manual_cars'[n] =
                        [manual_cars[n] EXCEPT !.is_active = FALSE,
                                               !.off_by = manual_cars[n].added_by]
                 /\ manual_cars[n].added_by \in Managers
                 /\ \A m \in 1..Len(manual_cars) \ {n} :
                        manual_cars'[m] = manual_cars[m]]_vars

\* After the first sleep the entry of manager 11 is inactive through
\* manager 11 and the entry of manager 12 is active.
C35_Witness ==
    /\ now = POLL_INTERVAL
    /\ ~manual_cars[1].is_active /\ manual_cars[1].off_by = 11
    /\ manual_cars[2].is_active /\ manual_cars[2].off_by = 0

\* The offer id of the row.
ManualId(car) == "manual_" \o ToString(car.id)

C37_CacheCoversSnapshot ==
    [][/\ pc' # "warm_manual" =>
              \A id \in Ids(cached_offers') :
                  /\ id \in DOMAIN _offer_cache'
                  /\ _offer_cache'[id] = Shown(OffersMap(cached_offers', id))
       /\ \A id \in DOMAIN _offer_cache :
              /\ id \in DOMAIN _offer_cache'
              /\ _offer_cache'[id] # _offer_cache[id] =>
                     id \in Ids(cached_offers')]_vars

\* Offer 7 was listed as Audi and then, without an image, as BMW; it has
\* left the list of the second cycle, the cache has its last entry and a
\* user has it as a favorite.
C37_Witness ==
    /\ pc = "sleep" /\ now = 2 * POLL_INTERVAL
    /\ "7" \notin Ids(cached_offers)
    /\ "7" \in DOMAIN _offer_cache
    /\ _offer_cache["7"] = [title |-> "BMW", image_url |-> ""]
    /\ \E user \in Chats : <<user, "7">> \in favorites

====
